---- MODULE Spec2Model ----
(***************************************************************************)
(* Hybrid matching pipeline of PFE-MATCHER: the match cache and the        *)
(* scorer with its fallback chain (src/ai_engine/matcher.py,               *)
(* src/ai_engine/gemini_client.py, src/ai_engine/perplexity_enricher.py,   *)
(* src/data_management/database.py) and the embedding index                *)
(* (src/ai_engine/embeddings.py), and the content store of uploaded        *)
(* documents (src/data_management/file_manager.py).                        *)
(***************************************************************************)
EXTENDS Integers, Sequences, FiniteSets, TLC

VARIABLES
    match_cache,        \* rows of table match_cache (models.py MatchCache)
    last,               \* the last call of the scorer / match-cache API and what it returned
    cv_embeddings,      \* table cv_embeddings: cv_hash -> pickled vector
    project_embeddings, \* table project_embeddings: project_id -> [embedding, text_hash]
    elast,              \* the last call of the embedding engine and what it returned
    documents,          \* rows of table uploaded_documents (models.py UploadedDocument)
    storage,            \* the files under the storage directory: path -> content
    flast,              \* the last call of the file manager and what it returned
    uuid_count,         \* how many identifiers uuid.uuid4 has handed out
    nlast,              \* the last call of the project normalizer and what it returned
    futures,            \* the worker pool of process_pdfs_parallel: file -> state of its task
    pool_results,       \* the result list process_pdfs_parallel is building
    glast,              \* the last request to the primary client and what it did
    db_faults,          \* the match_cache operations that raise at present: "read", "write"
    threads             \* the calls in progress in concurrent threads: thread -> its position

scorerVars == <<match_cache, last>>
embedVars == <<cv_embeddings, project_embeddings, elast>>
storeVars == <<documents, storage, flast>>
normVars == <<uuid_count, nlast>>
poolVars == <<futures, pool_results>>
otherVars == <<normVars, poolVars, glast, db_faults, threads>>
vars == <<match_cache, last, cv_embeddings, project_embeddings, elast,
         documents, storage, flast, uuid_count, nlast, futures, pool_results, glast,
         db_faults, threads>>

(***************************************************************************)
(* Python values.  A dict is a record (its keys are the record's fields);  *)
(* dict.get and item assignment are Get and Put.  None in a string-typed   *)
(* position is the marker None; a call returning "a dict or None" returns  *)
(* PyNone; a parsed JSON value that is not an object is JsonList.          *)
(***************************************************************************)
None == "<None>"
PyNone == [py_none |-> TRUE]
JsonList == [py_list |-> TRUE]
EmptyDict == [k \in {} |-> TRUE]

IsNone(v) == "py_none" \in DOMAIN v
IsDict(v) == "py_none" \notin DOMAIN v /\ "py_list" \notin DOMAIN v
\* Python truthiness of "a JSON value or None": None and {} are falsy.
Truthy(v) == ~IsNone(v) /\ DOMAIN v # {}

Get(d, k, default) == IF k \in DOMAIN d THEN d[k] ELSE default
Put(d, k, v) == [j \in DOMAIN d \cup {k} |-> IF j = k THEN v ELSE d[j]]

\* hashlib.sha256(...).hexdigest(): the digest of a content, one per content.
sha256(content) == <<"sha256", content>>

(***************************************************************************)
(* Inputs.                                                                 *)
(***************************************************************************)
CvData == {"cvA", "cvB"}
CvHashes == {sha256(c) : c \in CvData}

P1 == [id |-> "1", title |-> "Dev", company |-> "Corp"]
Q == [title |-> "AI Project", company |-> "Lab"]
Projects == {P1, Q}

\* Texts a scoring backend answers with.
TxtVerdict85 == "{\"overall_score\": 85}"
TxtVerdict40 == "{\"overall_score\": 40}"
TxtEmptyObject == "{}"
TxtList == "[1]"
TxtGarbage == "Sure! Here is the match"
ResponseTexts == {"", TxtGarbage, TxtVerdict85, TxtEmptyObject, TxtList}

\* json.loads: the parsed value, or JSONDecodeError (ok = FALSE).
json_loads(text) ==
    CASE text = TxtVerdict85 -> [ok |-> TRUE, value |-> [overall_score |-> 85]]
      [] text = TxtVerdict40 -> [ok |-> TRUE, value |-> [overall_score |-> 40]]
      [] text = TxtEmptyObject -> [ok |-> TRUE, value |-> EmptyDict]
      [] text = TxtList -> [ok |-> TRUE, value |-> JsonList]
      [] OTHER -> [ok |-> FALSE, value |-> PyNone]

(***************************************************************************)
(* Primary backend: GeminiClient.generate_structured_response.             *)
(* `responses` is what model.generate_content does at each attempt: raise  *)
(* an error mentioning 429, raise another error, or answer a text.         *)
(***************************************************************************)
max_retries == 3
retry_delay == 2

Err429 == [kind |-> "error429", text |-> ""]
ErrOther == [kind |-> "error", text |-> ""]
Answer(t) == [kind |-> "text", text |-> t]

\* The loop as it would be if a response that json.loads rejects ended the
\* request at once.
RECURSIVE GenerateLoopMalformedFinal(_, _, _)
GenerateLoopMalformedFinal(responses, attempt, sleeps) ==
    IF attempt >= max_retries
    THEN [value |-> PyNone, calls |-> attempt, sleeps |-> sleeps]
    ELSE LET r == responses[attempt + 1] IN
         CASE r.kind = "error429" ->
                GenerateLoopMalformedFinal(responses, attempt + 1,
                             Append(sleeps, retry_delay * (attempt + 1)))
           [] r.kind = "error" ->
                GenerateLoopMalformedFinal(responses, attempt + 1,
                                           Append(sleeps, retry_delay))
           [] r.kind = "text" /\ r.text = "" ->
                GenerateLoopMalformedFinal(responses, attempt + 1, sleeps)
           [] OTHER ->
                LET j == json_loads(r.text) IN
                IF j.ok
                THEN [value |-> j.value, calls |-> attempt + 1, sleeps |-> sleeps]
                ELSE [value |-> PyNone, calls |-> attempt + 1, sleeps |-> sleeps]

RECURSIVE GenerateLoop(_, _, _)
GenerateLoop(responses, attempt, sleeps) ==
    IF attempt >= max_retries
    THEN [value |-> PyNone, calls |-> attempt, sleeps |-> sleeps]
    ELSE LET r == responses[attempt + 1] IN
         CASE r.kind = "error429" ->
                GenerateLoop(responses, attempt + 1,
                             Append(sleeps, retry_delay * (attempt + 1)))
           [] r.kind = "error" ->
                GenerateLoop(responses, attempt + 1, Append(sleeps, retry_delay))
           [] r.kind = "text" /\ r.text = "" ->
                GenerateLoop(responses, attempt + 1, sleeps)
           [] OTHER ->
                LET j == json_loads(r.text) IN
                IF j.ok
                THEN [value |-> j.value, calls |-> attempt + 1, sleeps |-> sleeps]
                ELSE GenerateLoop(responses, attempt + 1, sleeps)

generate_structured_response(api_key, responses) ==
    IF ~api_key
    THEN [value |-> PyNone, calls |-> 0, sleeps |-> << >>]
    ELSE GenerateLoop(responses, 0, << >>)

(***************************************************************************)
(* Secondary backend: perplexity_enricher.chat_completion.                 *)
(***************************************************************************)
chat_completion(api_key, response) ==
    IF ~api_key THEN None
    ELSE IF response.kind # "text" THEN None
    ELSE response.text

(***************************************************************************)
(* Table match_cache (models.py) and its two functions (database.py).      *)
(* match_cache maps a (cv_hash, project_id) pair to its rows (score and    *)
(* result_json) in primary-key order; a pair without a row is not in the   *)
(* domain.                                                                 *)
(* The autoincremented id is read by no code: only the order it gives to   *)
(* the rows of one pair (Query.first) is kept.                             *)
(***************************************************************************)
MatchCacheQuery(rows, cv_hash, project_id) ==
    IF <<cv_hash, project_id>> \in DOMAIN rows THEN rows[<<cv_hash, project_id>>] ELSE << >>

RowCount(rows) ==
    LET RECURSIVE Sum(_)
        Sum(ks) == IF ks = {} THEN 0
                   ELSE LET k == CHOOSE x \in ks : TRUE IN Len(rows[k]) + Sum(ks \ {k})
    IN Sum(DOMAIN rows)

get_cached_match_by_project(rows, cv_hash, project_id) ==
    LET keys == {k \in DOMAIN rows : k[2] = project_id} IN
    IF keys = {} THEN PyNone ELSE Head(rows[CHOOSE k \in keys : TRUE]).result_json

\* Whether the query of get_cached_match raises (the except branch logs and
\* returns None).
QueryNeverRaises == FALSE
QueryRaises == "read" \in db_faults

get_cached_match(rows, cv_hash, project_id) ==
    LET found == MatchCacheQuery(rows, cv_hash, project_id) IN
    IF QueryRaises THEN PyNone
    ELSE IF found = << >> THEN PyNone ELSE Head(found).result_json

uix_cv_project_dropped(rows, cv_hash, project_id) == TRUE

\* UniqueConstraint('cv_hash', 'project_id', name='uix_cv_project')
uix_cv_project(rows, cv_hash, project_id) ==
    MatchCacheQuery(rows, cv_hash, project_id) = << >>

\* Whether merge or commit of save_cached_match raises for a reason of the
\* database itself (the except branch rolls back and logs).
CommitNeverRaises == FALSE
CommitRaises == "write" \in db_faults

\* session.merge of an entry that has no primary key is an INSERT; when the
\* unique constraint rejects it the except branch rolls back and returns.
save_cached_match(rows, cv_hash, project_id, result) ==
    IF CommitRaises THEN rows
    ELSE IF uix_cv_project(rows, cv_hash, project_id)
    THEN LET key == <<cv_hash, project_id>> IN
         [k \in DOMAIN rows \cup {key} |->
             IF k = key
             THEN Append(MatchCacheQuery(rows, cv_hash, project_id),
                         [score |-> Get(result, "overall_score", 0), result_json |-> result])
             ELSE rows[k]]
    ELSE rows

(***************************************************************************)
(* The scorer: matcher.match_project_to_cv.                                *)
(* `prim` is what the primary client does in this call (the client raises, *)
(* or runs its attempts over `responses`); `sec` what the secondary does.  *)
(***************************************************************************)
\* str(project.get("id", ""))
project_key(project) == Get(project, "id", "")

\* Lines 45-51: the value of `result` after the try block around the primary.
PrimaryStep(prim) ==
    IF prim.raises
    THEN [value |-> PyNone, raised |-> TRUE, attempts |-> 1]
    ELSE LET g == generate_structured_response(prim.api_key, prim.responses) IN
         [value |-> g.value, raised |-> FALSE, attempts |-> g.calls]

FallbackAlways(result) == TRUE

\* Line 54: the fallback runs when the primary left no truthy result.
FallbackNeeded(result) == ~Truthy(result)

\* Lines 55-75: `result` and `used_fallback` after the fallback block.
FallbackStep(result, sec) ==
    LET content == chat_completion(sec.api_key, sec.response) IN
    IF content = None \/ content = ""
    THEN [result |-> result, used_fallback |-> FALSE]
    ELSE LET j == json_loads(content) IN
         IF j.ok
         THEN [result |-> j.value, used_fallback |-> TRUE]
         ELSE [result |-> result, used_fallback |-> FALSE]

SourceTagPrimaryOnly(used_fallback) == "gemini"

\* Line 87
SourceTag(used_fallback) == IF used_fallback THEN "perplexity" ELSE "gemini"

MetaKeys == {"project_id", "project_title", "company", "reference_id", "email",
             "application_method", "application_link", "was_cached", "source"}

\* Lines 78-87: the metadata written into the verdict.
AttachMetadata(result, project, used_fallback) ==
    [k \in DOMAIN result \cup MetaKeys |->
        CASE k = "project_id" -> Get(project, "id", None)
          [] k = "project_title" -> Get(project, "title", None)
          [] k = "company" -> Get(project, "company", None)
          [] k = "reference_id" -> Get(project, "reference_id", "")
          [] k = "email" -> Get(project, "email", "")
          [] k = "application_method" -> Get(project, "application_method", "")
          [] k = "application_link" -> Get(project, "application_link", "")
          [] k = "was_cached" -> FALSE
          [] k = "source" -> SourceTag(used_fallback)
          [] OTHER -> result[k]]

SentinelWithoutError(project) ==
    [overall_score |-> 0,
     was_cached |-> FALSE,
     project_id |-> Get(project, "id", None),
     project_title |-> Get(project, "title", None),
     company |-> Get(project, "company", None)]

\* Lines 97-104
Sentinel(project) ==
    [overall_score |-> 0,
     error |-> "Failed to generate match (Both Gemini and Fallback failed)",
     was_cached |-> FALSE,
     project_id |-> Get(project, "id", None),
     project_title |-> Get(project, "title", None),
     company |-> Get(project, "company", None)]

CacheNeverHit(rows, cv_hash, project_id) == FALSE

\* Lines 31-36: the cached result is used when it is truthy.
CacheHit(rows, cv_hash, project_id) == Truthy(get_cached_match(rows, cv_hash, project_id))

AfterSentinelSaved(rows, cv_hash, project_id, sentinel) ==
    save_cached_match(rows, cv_hash, project_id, sentinel)

\* Lines 96-104: the else branch returns the sentinel and makes no call of
\* save_cached_match; the table is as it was.
AfterSentinel(rows, cv_hash, project_id, sentinel) == rows

match_project_to_cv(rows, cv_data, project, prim, sec) ==
    LET cv_hash == sha256(cv_data)
        project_id == project_key(project)
        cached_result == get_cached_match(rows, cv_hash, project_id)
    IN
    IF CacheHit(rows, cv_hash, project_id)
    THEN [ret |-> Put(cached_result, "was_cached", TRUE), raised |-> FALSE,
          rows |-> rows, calls |-> << >>, attempts |-> 0,
          primary |-> PyNone, primary_raised |-> FALSE,
          secondary |-> PyNone, used_fallback |-> FALSE]
    ELSE
    LET p == PrimaryStep(prim)
        needed == FallbackNeeded(p.value)
        f == IF needed THEN FallbackStep(p.value, sec)
             ELSE [result |-> p.value, used_fallback |-> FALSE]
        calls == IF needed THEN <<"gemini", "perplexity">> ELSE <<"gemini">>
        result == f.result
        secondary == IF f.used_fallback THEN f.result ELSE PyNone
    IN
    IF Truthy(result)
    THEN IF IsDict(result)
         THEN LET tagged == AttachMetadata(result, project, f.used_fallback) IN
              [ret |-> tagged, raised |-> FALSE,
               rows |-> save_cached_match(rows, cv_hash, project_id, tagged),
               calls |-> calls, attempts |-> p.attempts,
               primary |-> p.value, primary_raised |-> p.raised,
               secondary |-> secondary, used_fallback |-> f.used_fallback]
         \* item assignment on a value that is no dict raises TypeError (line 79)
         ELSE [ret |-> PyNone, raised |-> TRUE, rows |-> rows,
               calls |-> calls, attempts |-> p.attempts,
               primary |-> p.value, primary_raised |-> p.raised,
               secondary |-> secondary, used_fallback |-> f.used_fallback]
    ELSE [ret |-> Sentinel(project), raised |-> FALSE,
          rows |-> AfterSentinel(rows, cv_hash, project_id, Sentinel(project)),
          calls |-> calls, attempts |-> p.attempts,
          primary |-> p.value, primary_raised |-> p.raised,
          secondary |-> secondary, used_fallback |-> f.used_fallback]

(***************************************************************************)
(* What the backends do in one scorer call.                                *)
(***************************************************************************)
PrimaryBehaviours ==
    {[raises |-> TRUE, api_key |-> TRUE, responses |-> << >>],
     [raises |-> FALSE, api_key |-> FALSE, responses |-> << >>],
     [raises |-> FALSE, api_key |-> TRUE, responses |-> <<Answer(TxtVerdict85)>>],
     [raises |-> FALSE, api_key |-> TRUE, responses |-> <<Answer(TxtEmptyObject)>>],
     [raises |-> FALSE, api_key |-> TRUE, responses |-> <<Answer(TxtList)>>],
     [raises |-> FALSE, api_key |-> TRUE,
      responses |-> <<Err429, Answer(TxtGarbage), Answer(TxtVerdict85)>>],
     [raises |-> FALSE, api_key |-> TRUE,
      responses |-> <<ErrOther, Answer(""), Answer(TxtGarbage)>>]}
SecondaryBehaviours ==
    {[api_key |-> FALSE, response |-> ErrOther], [api_key |-> TRUE, response |-> ErrOther]}
    \cup {[api_key |-> TRUE, response |-> Answer(t)] : t \in ResponseTexts}
Unused == [raises |-> FALSE, api_key |-> FALSE, responses |-> << >>, response |-> ErrOther]

\* Results handed to save_cached_match directly.
SavedResults == {[overall_score |-> 40], [overall_score |-> 85]}
ProjectIds == {project_key(p) : p \in Projects}

\* The model stops adding rows to match_cache at MaxRows rows.
MaxRows == 2

(***************************************************************************)
(* Actions of the scorer and the match cache.                              *)
(***************************************************************************)
Score(PS) ==
    \E cv_data \in CvData, project \in PS :
    LET hit == CacheHit(match_cache, sha256(cv_data), project_key(project)) IN
    \E prim \in IF hit THEN {Unused} ELSE PrimaryBehaviours :
    \E sec \in IF ~hit /\ FallbackNeeded(PrimaryStep(prim).value)
                THEN SecondaryBehaviours ELSE {Unused} :
    LET out == match_project_to_cv(match_cache, cv_data, project, prim, sec) IN
    /\ match_cache' = out.rows
    /\ RowCount(out.rows) <= MaxRows
    /\ last' = [op |-> "score", cv_hash |-> sha256(cv_data),
                project_id |-> project_key(project), project |-> project,
                ret |-> out.ret, raised |-> out.raised, calls |-> out.calls,
                primary |-> out.primary, primary_raised |-> out.primary_raised,
                secondary |-> out.secondary, used_fallback |-> out.used_fallback]
    /\ UNCHANGED <<embedVars, storeVars, otherVars>>

Save ==
    \E cv_hash \in CvHashes, project_id \in ProjectIds, result \in SavedResults :
    /\ match_cache' = save_cached_match(match_cache, cv_hash, project_id, result)
    /\ RowCount(match_cache') <= MaxRows
    /\ last' = [op |-> "save", cv_hash |-> cv_hash, project_id |-> project_id,
                arg |-> result]
    /\ UNCHANGED <<embedVars, storeVars, otherVars>>

Lookup ==
    \E cv_hash \in CvHashes, project_id \in ProjectIds :
    /\ last' = [op |-> "lookup", cv_hash |-> cv_hash, project_id |-> project_id,
                ret |-> get_cached_match(match_cache, cv_hash, project_id)]
    /\ UNCHANGED <<match_cache, embedVars, storeVars, otherVars>>

ScoreAny == Score(Projects)

\* The threads that may run a call at the same time, and a thread that runs
\* none.
Threads == {1, 2}
Idle == [pc |-> "idle"]

Init ==
    /\ match_cache = << >>
    /\ last = [op |-> "init"]
    /\ cv_embeddings = << >>
    /\ project_embeddings = << >>
    /\ elast = [op |-> "init"]
    /\ documents = {}
    /\ storage = << >>
    /\ flast = [op |-> "init"]
    /\ uuid_count = 0
    /\ nlast = [op |-> "init"]
    /\ futures = [phase |-> "idle"]
    /\ pool_results = << >>
    /\ glast = [op |-> "init"]
    /\ db_faults = {}
    /\ threads = [t \in Threads |-> Idle]

Next == ScoreAny \/ Save \/ Lookup

Spec == Init /\ [][Next]_vars

(***************************************************************************)
(* Embedding index: embeddings.EmbeddingEngine and the embedding tables    *)
(* of database.py.  A vector is a pair of integers; a cosine similarity is *)
(* kept in hundredths (0.30 is 30).                                        *)
(***************************************************************************)
Vectors == {<<5, 0>>, <<4, 3>>, <<-3, 4>>}
NoEmbedding == << >>

Dot(a, b) == a[1] * b[1] + a[2] * b[2]
\* np.linalg.norm
Norm(v) == CHOOSE n \in 0..Dot(v, v) : n * n = Dot(v, v)
\* Line 111: np.dot(a, b) / (norm(a) * norm(b))
CosineSimilarity(a, b) == (Dot(a, b) * 100) \div (Norm(a) * Norm(b))

\* pickle.dumps / pickle.loads of an array: the bytes hold the array.
pickle_dumps(v) == <<"pickle", v>>
pickle_loads(bytes) == bytes[2]

\* What one call of SentenceTransformer.encode does: raise, or return a vector.
EncodeRaises == [raises |-> TRUE, vector |-> NoEmbedding]
Encoded(v) == [raises |-> FALSE, vector |-> v]
EncodeOutcomes == {EncodeRaises} \cup {Encoded(v) : v \in Vectors}

get_cv_embedding(tab, cv_hash) ==
    IF cv_hash \in DOMAIN tab THEN pickle_loads(tab[cv_hash]) ELSE NoEmbedding

save_cv_embedding_dropped(tab, cv_hash, embedding) == tab

\* session.merge of an entry with its primary key (cv_hash): insert or update.
save_cv_embedding(tab, cv_hash, embedding) ==
    [h \in DOMAIN tab \cup {cv_hash} |->
        IF h = cv_hash THEN pickle_dumps(embedding) ELSE tab[h]]

\* EmbeddingEngine.embed_cv
embed_cv(tab, cv_text, enc) ==
    LET cv_hash == sha256(cv_text)
        cached_emb == get_cv_embedding(tab, cv_hash)
    IN
    IF cached_emb # NoEmbedding
    THEN [embedding |-> cached_emb, cv_hash |-> cv_hash, raised |-> FALSE,
          tab |-> tab, encode_calls |-> 0, hit |-> TRUE]
    ELSE IF enc.raises
    THEN [embedding |-> NoEmbedding, cv_hash |-> cv_hash, raised |-> TRUE,
          tab |-> tab, encode_calls |-> 1, hit |-> FALSE]
    ELSE [embedding |-> enc.vector, cv_hash |-> cv_hash, raised |-> FALSE,
          tab |-> save_cv_embedding(tab, cv_hash, enc.vector),
          encode_calls |-> 1, hit |-> FALSE]

\* A dict in insertion order: a sequence of <<key, value>> with distinct keys.
DictKeys(d) == {d[i][1] : i \in 1..Len(d)}
DictSet(d, k, v) ==
    IF k \in DictKeys(d)
    THEN [i \in 1..Len(d) |-> IF d[i][1] = k THEN <<k, v>> ELSE d[i]]
    ELSE Append(d, <<k, v>>)

get_project_embeddingsNone(tab, project_ids) == << >>

\* Lines 199-209
get_project_embeddings(tab, project_ids) ==
    [pid \in DOMAIN tab \cap project_ids |-> pickle_loads(tab[pid].embedding)]

\* Lines 211-228: merge by primary key project_id, for each entry of the map.
RECURSIVE save_project_embeddings(_, _)
save_project_embeddings(tab, save_map) ==
    IF save_map = << >> THEN tab
    ELSE LET pid == Head(save_map)[1]
             val == Head(save_map)[2]
             tab2 == [q \in DOMAIN tab \cup {pid} |->
                        IF q = pid
                        THEN [embedding |-> pickle_dumps(val[1]), text_hash |-> val[2]]
                        ELSE tab[q]]
         IN save_project_embeddings(tab2, Tail(save_map))

EMBEDDING_BATCH_SIZE == 100

\* Line 66: the text a project is embedded from.
ProjectContent(project) ==
    <<Get(project, "title", ""), Get(project, "description", ""),
      Get(project, "technologies", "")>>

\* Lines 60-79: the cached embeddings (in list order) and the entries to embed.
RECURSIVE CheckCache(_, _, _, _)
CheckCache(projects, cached_map, found, to_embed) ==
    IF projects = << >> THEN [found |-> found, to_embed |-> to_embed]
    ELSE LET project == Head(projects)
             pid == Get(project, "id", "")
         IN
         IF pid = "" THEN CheckCache(Tail(projects), cached_map, found, to_embed)
         ELSE IF pid \in DOMAIN cached_map
         THEN CheckCache(Tail(projects), cached_map,
                         DictSet(found, pid, cached_map[pid]), to_embed)
         ELSE CheckCache(Tail(projects), cached_map, found,
                         Append(to_embed,
                                [content |-> ProjectContent(project), pid |-> pid,
                                 text_hash |-> sha256(ProjectContent(project))]))

ToEmbed(tab, projects) ==
    LET ids == {Get(projects[i], "id", "") : i \in 1..Len(projects)} \ {""} IN
    CheckCache(projects, get_project_embeddings(tab, ids), << >>, << >>).to_embed

Min(a, b) == IF a <= b THEN a ELSE b
NumBatches(n) == (n + EMBEDDING_BATCH_SIZE - 1) \div EMBEDDING_BATCH_SIZE

\* Lines 87-102: one batch is encoded, written to the result and saved; the
\* encode of batch number fail_batch raises and ends the call.
RECURSIVE EmbedBatches(_, _, _, _, _, _, _)
EmbedBatches(to_embed, encs, fail_batch, i, result, tab, calls) ==
    IF i >= Len(to_embed)
    THEN [embeddings |-> result, tab |-> tab, raised |-> FALSE, encode_calls |-> calls]
    ELSE IF fail_batch = i \div EMBEDDING_BATCH_SIZE + 1
    THEN [embeddings |-> result, tab |-> tab, raised |-> TRUE, encode_calls |-> calls + 1]
    ELSE LET hi == Min(i + EMBEDDING_BATCH_SIZE, Len(to_embed))
             RECURSIVE Fill(_, _, _)
             Fill(j, res, save_map) ==
                 IF j > hi THEN [res |-> res, save_map |-> save_map]
                 ELSE Fill(j + 1, DictSet(res, to_embed[j].pid, encs[j]),
                           DictSet(save_map, to_embed[j].pid,
                                   <<encs[j], to_embed[j].text_hash>>))
             filled == Fill(i + 1, result, << >>)
         IN EmbedBatches(to_embed, encs, fail_batch, i + EMBEDDING_BATCH_SIZE,
                         filled.res, save_project_embeddings(tab, filled.save_map),
                         calls + 1)

\* EmbeddingEngine.embed_projects_batch. `encs` holds the vector encode gives
\* to each entry to embed.
embed_projects_batch(tab, projects, encs, fail_batch) ==
    LET ids == {Get(projects[i], "id", "") : i \in 1..Len(projects)} \ {""}
        checked == CheckCache(projects, get_project_embeddings(tab, ids), << >>, << >>)
    IN EmbedBatches(checked.to_embed, encs, fail_batch, 0, checked.found, tab, 0)

\* list.sort(key=score, reverse=True): stable, descending.
RECURSIVE InsertDesc(_, _)
InsertDesc(sorted, x) ==
    IF sorted = << >> THEN <<x>>
    ELSE IF Head(sorted)[2] >= x[2] THEN <<Head(sorted)>> \o InsertDesc(Tail(sorted), x)
    ELSE <<x>> \o sorted
RECURSIVE SortDesc(_)
SortDesc(scores) ==
    IF scores = << >> THEN << >>
    ELSE InsertDesc(SortDesc(SubSeq(scores, 1, Len(scores) - 1)), scores[Len(scores)])

\* EmbeddingEngine.compute_similarities
compute_similarities(cv_embedding, proj_embs) ==
    SortDesc([i \in 1..Len(proj_embs) |->
                <<proj_embs[i][1], CosineSimilarity(cv_embedding, proj_embs[i][2])>>])

\* Line 128: {str(p.get('id')): p for p in projects}; a later project replaces
\* an earlier one of the same id, and a project without id is under "None".
StrId(project) == Get(project, "id", "None")
ProjectMap(projects) ==
    [k \in {StrId(projects[i]) : i \in 1..Len(projects)} |->
        projects[CHOOSE i \in 1..Len(projects) :
                   /\ StrId(projects[i]) = k
                   /\ \A j \in (i + 1)..Len(projects) : StrId(projects[j]) # k]]

\* Line 139: the loop ends once the list holds top_k projects.
EnoughSelected(filtered_projects, top_k) == Len(filtered_projects) >= top_k

\* Lines 130-140
RECURSIVE FilterLoop(_, _, _, _, _, _)
FilterLoop(scores, i, filtered_projects, project_map, top_k, min_threshold) ==
    IF i > Len(scores) THEN filtered_projects
    ELSE LET pid == scores[i][1]
             score == scores[i][2]
         IN
         IF score < min_threshold
         THEN FilterLoop(scores, i + 1, filtered_projects, project_map, top_k, min_threshold)
         ELSE LET added == IF pid \in DOMAIN project_map
                           THEN Append(filtered_projects,
                                       Put(project_map[pid], "similarity_score", score))
                           ELSE filtered_projects
              IN IF EnoughSelected(added, top_k) THEN added
                 ELSE FilterLoop(scores, i + 1, added, project_map, top_k, min_threshold)

FailClosed(projects) == << >>

\* Lines 144-146: the except branch returns the list it was given.
FailOpen(projects) == projects

\* EmbeddingEngine.prefilter_projects. env: what the embedding backend does
\* during the call (cv_enc, proj_encs, fail_batch) and whether computing the
\* similarities raises (sim_raises).
prefilter_projects(cvtab, ptab, cv_text, projects, top_k, min_threshold, env) ==
    LET cv == embed_cv(cvtab, cv_text, env.cv_enc) IN
    IF cv.raised
    THEN [ret |-> FailOpen(projects), failed |-> TRUE, cvtab |-> cv.tab, ptab |-> ptab]
    ELSE
    LET pe == embed_projects_batch(ptab, projects, env.proj_encs, env.fail_batch) IN
    IF pe.raised
    THEN [ret |-> FailOpen(projects), failed |-> TRUE, cvtab |-> cv.tab, ptab |-> pe.tab]
    ELSE IF env.sim_raises
    THEN [ret |-> FailOpen(projects), failed |-> TRUE, cvtab |-> cv.tab, ptab |-> pe.tab]
    ELSE [ret |-> FilterLoop(compute_similarities(cv.embedding, pe.embeddings), 1, << >>,
                             ProjectMap(projects), top_k, min_threshold),
          failed |-> FALSE, cvtab |-> cv.tab, ptab |-> pe.tab]

(***************************************************************************)
(* Inputs of the embedding index.                                          *)
(***************************************************************************)
CvTexts == {"Python Data Scientist", "Java Developer", "Python Developer with 5 years experience"}
E1 == [id |-> "1", title |-> "Data Scientist", description |-> "Python ML"]
E2 == [id |-> "2", title |-> "Java Developer", description |-> "Spring Boot"]
E0 == [title |-> "Frontend", description |-> "React JS"]
EmbedProjects == {E1, E2, E0}

\* The project lists handed to the prefilter: the lists of at most two projects.
ProjectLists ==
    {<< >>} \cup {<<a>> : a \in EmbedProjects}
            \cup {<<a, b>> : a \in EmbedProjects, b \in EmbedProjects}
\* Largest top_k handed to the prefilter.
MaxTopK == 2
\* min_threshold in hundredths: the default MIN_SIMILARITY_THRESHOLD, 0.30.
Thresholds == {30}

(***************************************************************************)
(* Actions of the embedding index.                                         *)
(***************************************************************************)
EmbedCv ==
    \E cv_text \in CvTexts :
    \E enc \in IF get_cv_embedding(cv_embeddings, sha256(cv_text)) = NoEmbedding
                THEN EncodeOutcomes ELSE {EncodeRaises} :
    LET out == embed_cv(cv_embeddings, cv_text, enc) IN
    /\ cv_embeddings' = out.tab
    /\ elast' = [op |-> "embed_cv", cv_text |-> cv_text, embedding |-> out.embedding,
                 cv_hash |-> out.cv_hash, raised |-> out.raised,
                 encode_calls |-> out.encode_calls, hit |-> out.hit]
    /\ UNCHANGED <<project_embeddings, scorerVars, storeVars, otherVars>>

Prefilter(texts) ==
    \E cv_text \in texts, projects \in ProjectLists,
       top_k \in 0..MaxTopK, min_threshold \in Thresholds :
    LET n == Len(ToEmbed(project_embeddings, projects))
        miss == get_cv_embedding(cv_embeddings, sha256(cv_text)) = NoEmbedding
    IN
    \E cv_enc \in IF miss THEN EncodeOutcomes ELSE {EncodeRaises} :
    \E fail_batch \in IF miss /\ cv_enc.raises THEN {0} ELSE 0..NumBatches(n) :
    \E proj_encs \in IF (miss /\ cv_enc.raises) \/ fail_batch # 0
                      THEN {[i \in 1..n |-> NoEmbedding]} ELSE [1..n -> Vectors] :
    \E sim_raises \in IF (miss /\ cv_enc.raises) \/ fail_batch # 0
                       THEN {FALSE} ELSE BOOLEAN :
    LET out == prefilter_projects(cv_embeddings, project_embeddings, cv_text, projects,
                                  top_k, min_threshold,
                                  [cv_enc |-> cv_enc, proj_encs |-> proj_encs,
                                   fail_batch |-> fail_batch, sim_raises |-> sim_raises])
    IN
    /\ cv_embeddings' = out.cvtab
    /\ project_embeddings' = out.ptab
    /\ elast' = [op |-> "prefilter", cv_text |-> cv_text, projects |-> projects,
                 top_k |-> top_k, min_threshold |-> min_threshold,
                 ret |-> out.ret, failed |-> out.failed]
    /\ UNCHANGED <<scorerVars, storeVars, otherVars>>

PrefilterOne == Prefilter({"Python Data Scientist"})

NextEmbedCv == EmbedCv
SpecEmbedCv == Init /\ [][NextEmbedCv]_vars

NextPrefilter == PrefilterOne
SpecPrefilter == Init /\ [][NextPrefilter]_vars

(***************************************************************************)
(* Properties of the match cache and the scorer (specification Spec).      *)
(***************************************************************************)
lookup(rows, cv_hash, project_id) == get_cached_match(rows, cv_hash, project_id)
Stored(rows, cv_hash, project_id) == ~IsNone(lookup(rows, cv_hash, project_id))
IsScore(l, cv_hash, project_id) ==
    l.op = "score" /\ l.cv_hash = cv_hash /\ l.project_id = project_id
IsSave(l, cv_hash, project_id) ==
    l.op = "save" /\ l.cv_hash = cv_hash /\ l.project_id = project_id
Pairs == CvHashes \X ProjectIds

\* C1: a pair only moves UNSCORED -> SCORED. Once a result is stored for a
\* pair, every step keeps that stored result, and every scorer invocation for
\* the pair returns it tagged was_cached = TRUE without calling the primary
\* or the secondary backend.
C1_ScoredStaysScored ==
    [][\A pr \in Pairs :
         Stored(match_cache, pr[1], pr[2]) =>
           /\ lookup(match_cache', pr[1], pr[2]) = lookup(match_cache, pr[1], pr[2])
           /\ IsScore(last', pr[1], pr[2]) =>
                 /\ ~last'.raised
                 /\ last'.ret = Put(lookup(match_cache, pr[1], pr[2]), "was_cached", TRUE)
                 /\ last'.calls = << >>]_vars

\* C1 witness: a scorer invocation was served from the cache a result that a
\* backend had produced.
C1_Witness ==
    /\ last.op = "score"
    /\ ~last.raised
    /\ Get(last.ret, "was_cached", FALSE)
    /\ Get(last.ret, "source", "") \in {"gemini", "perplexity"}

\* C2: on a cache miss the strategies run in a fixed order: the primary client
\* is called first, and the secondary is called only after the primary raised
\* or returned no result; it is never called when the primary produced one.
C2_SecondaryOnlyAfterPrimaryFailed ==
    last.op = "score" =>
      /\ last.calls \in {<< >>, <<"gemini">>, <<"gemini", "perplexity">>}
      /\ (last.calls = <<"gemini", "perplexity">>) =>
            (last.primary_raised \/ ~Truthy(last.primary))
      /\ (last.calls # << >> /\ Truthy(last.primary)) => last.calls = <<"gemini">>

\* C2 witness: a scorer invocation in which the secondary was called.
C2_Witness == last.op = "score" /\ last.calls = <<"gemini", "perplexity">>

\* C3: when both backends fail the scorer does not raise and returns the
\* sentinel: score 0, an error field, was_cached = FALSE and the project's
\* id, title and company.
C3_SentinelWhenBothFail ==
    (last.op = "score" /\ last.calls = <<"gemini", "perplexity">>
       /\ ~Truthy(last.primary) /\ ~Truthy(last.secondary)) =>
      /\ ~last.raised
      /\ last.ret.overall_score = 0
      /\ "error" \in DOMAIN last.ret
      /\ last.ret.error # ""
      /\ last.ret.was_cached = FALSE
      /\ last.ret.project_id = Get(last.project, "id", None)
      /\ last.ret.project_title = Get(last.project, "title", None)
      /\ last.ret.company = Get(last.project, "company", None)

\* C3 witness: the primary raised and the secondary failed too.
C3_Witness ==
    /\ last.op = "score"
    /\ last.primary_raised
    /\ last.calls = <<"gemini", "perplexity">>
    /\ ~Truthy(last.secondary)
    /\ "error" \in DOMAIN last.ret

\* The fallback scenario: the primary raised and the secondary answered a
\* verdict with overall_score 85.
FallbackScenario ==
    /\ last.op = "score"
    /\ last.primary_raised
    /\ last.used_fallback
    /\ ~last.raised
    /\ last.ret.overall_score = 85

\* C4 as claimed: in the fallback scenario the result returned and stored has
\* overall_score 85 and source "fallback".
C4_SourceIsFallback ==
    FallbackScenario =>
      /\ last.ret.source = "fallback"
      /\ lookup(match_cache, last.cv_hash, last.project_id) = last.ret

\* C4 amended: in the fallback scenario the result returned and stored has
\* overall_score 85 and source "perplexity"; every fresh result produced by
\* the secondary is tagged "perplexity" and every one produced by the primary
\* is tagged "gemini".
C4_SourceIsPerplexity ==
    /\ FallbackScenario =>
          /\ last.ret.overall_score = 85
          /\ last.ret.source = "perplexity"
          /\ lookup(match_cache, last.cv_hash, last.project_id) = last.ret
    /\ (last.op = "score" /\ ~last.raised /\ last.calls # << >>
           /\ "source" \in DOMAIN last.ret) =>
          /\ last.used_fallback => last.ret.source = "perplexity"
          /\ ~last.used_fallback => last.ret.source = "gemini"
          /\ last.used_fallback <=> last.calls = <<"gemini", "perplexity">>

\* C4 witness: the fallback scenario happened and its result is stored.
C4_Witness ==
    FallbackScenario /\ Stored(match_cache, last.cv_hash, last.project_id)

\* C5: a save(h, pid, R) on a key without a row makes lookup(h, pid) return
\* exactly R and changes the answer of no other lookup: lookup(h, other_pid)
\* and lookup(other_h, pid) still miss if they missed.
C5_RoundTrip ==
    [][\A pr \in Pairs :
         (IsSave(last', pr[1], pr[2]) /\ ~Stored(match_cache, pr[1], pr[2])) =>
           /\ lookup(match_cache', pr[1], pr[2]) = last'.arg
           /\ \A o \in Pairs \ {pr} :
                 lookup(match_cache', o[1], o[2]) = lookup(match_cache, o[1], o[2])]_vars

\* C5 witness: after a save the saved key answers the saved result while the
\* same hash with another project id and another hash with the same project
\* id both miss.
C5_Witness ==
    /\ last.op = "save"
    /\ lookup(match_cache, last.cv_hash, last.project_id) = last.arg
    /\ \E h \in CvHashes \ {last.cv_hash} : ~Stored(match_cache, h, last.project_id)
    /\ \E pid \in ProjectIds \ {last.project_id} : ~Stored(match_cache, last.cv_hash, pid)

\* C6: the match cache holds at most one row per (cv_hash, project_id) pair.
C6_OneRowPerPair ==
    \A k \in DOMAIN match_cache : Len(match_cache[k]) <= 1

\* C6 witness: a save for a pair that already had a row was made (the stored
\* result is not the one just handed in).
C6_Witness ==
    /\ last.op = "save"
    /\ Stored(match_cache, last.cv_hash, last.project_id)
    /\ lookup(match_cache, last.cv_hash, last.project_id) # last.arg

\* C7 as claimed: a save for a pair that already has a row replaces the stored
\* result, so that lookup returns the new result, with one row for the pair.
C7_SaveReplaces ==
    [][\A pr \in Pairs :
         (IsSave(last', pr[1], pr[2]) /\ Stored(match_cache, pr[1], pr[2])) =>
           /\ lookup(match_cache', pr[1], pr[2]) = last'.arg
           /\ Len(MatchCacheQuery(match_cache', pr[1], pr[2])) = 1]_vars

(***************************************************************************)
(* Properties of the embedding index (SpecPrefilter, SpecEmbedCv).         *)
(***************************************************************************)
\* The similarity to the candidate of a project the prefilter returned, from
\* the vectors the tables hold after the call.
StoredSimilarity(project) ==
    CosineSimilarity(get_cv_embedding(cv_embeddings, sha256(elast.cv_text)),
                     pickle_loads(project_embeddings[project.id].embedding))

PrefilterPostcondition ==
    /\ Len(elast.ret) <= elast.top_k
    /\ \A i \in 1..Len(elast.ret) :
          /\ elast.ret[i].similarity_score = StoredSimilarity(elast.ret[i])
          /\ elast.ret[i].similarity_score >= elast.min_threshold
    /\ \A i \in 1..(Len(elast.ret) - 1) :
          elast.ret[i].similarity_score >= elast.ret[i + 1].similarity_score

\* C8 as claimed: for every top_k >= 0 a prefilter call without backend
\* failure returns at most top_k projects, each with similarity >= the
\* threshold, in descending order of similarity.
C8_PrefilterBounds ==
    (elast.op = "prefilter" /\ ~elast.failed) => PrefilterPostcondition

\* The same for top_k >= 1, where the code keeps the bound.
C8_PrefilterBoundsPositiveTopK ==
    (elast.op = "prefilter" /\ ~elast.failed /\ elast.top_k >= 1) => PrefilterPostcondition

\* C9: the prefilter fails open: when embedding the candidate text, embedding
\* the projects or computing the similarities fails, it returns the project
\* list it was given, the same projects in the same order.
C9_FailOpen ==
    (elast.op = "prefilter" /\ elast.failed) => elast.ret = elast.projects

\* C9 witness: a prefilter call over two projects failed.
C9_Witness ==
    elast.op = "prefilter" /\ elast.failed /\ Len(elast.projects) = 2

E1Edited == [id |-> "1", title |-> "Data Engineer", description |-> "Spark"]
BatchLists ==
    {<<a>> : a \in {E1, E1Edited, E2}}
       \cup {<<a, b>> : a \in {E1, E1Edited}, b \in {E2, E0}}

EmbedBatch ==
    \E projects \in BatchLists :
    LET n == Len(ToEmbed(project_embeddings, projects)) IN
    \E fail_batch \in 0..NumBatches(n) :
    \E proj_encs \in IF fail_batch # 0
                      THEN {[i \in 1..n |-> NoEmbedding]} ELSE [1..n -> Vectors] :
    LET out == embed_projects_batch(project_embeddings, projects, proj_encs, fail_batch) IN
    /\ project_embeddings' = out.tab
    /\ elast' = [op |-> "embed_batch", projects |-> projects,
                 embeddings |-> out.embeddings, raised |-> out.raised,
                 encode_calls |-> out.encode_calls]
    /\ UNCHANGED <<cv_embeddings, scorerVars, storeVars, otherVars>>

NextEmbedIndex == EmbedCv \/ EmbedBatch
SpecEmbedIndex == Init /\ [][NextEmbedIndex]_vars

\* The entry of the project cache that an embed_projects_batch call used for
\* a project is the entry of that project's text.
ServedByContentHash(tab, project) ==
    LET pid == Get(project, "id", "") IN
    pid # "" =>
       /\ pid \in DOMAIN tab
       /\ tab[pid].text_hash = sha256(ProjectContent(project))

\* C11 as claimed: every embedding cache entry, of a candidate and of a
\* project, is keyed by the content hash of the text it represents (a call
\* that embeds a text uses the entry of that text's hash), and no step
\* replaces the vector an entry holds for a hash by another vector.
C11_ContentAddressed ==
    [][/\ \A h \in DOMAIN cv_embeddings' : \E t \in CvTexts : h = sha256(t)
       /\ (elast'.op = "embed_batch" /\ ~elast'.raised) =>
             \A i \in 1..Len(elast'.projects) :
                ServedByContentHash(project_embeddings', elast'.projects[i])
       /\ \A h \in DOMAIN cv_embeddings : cv_embeddings'[h] = cv_embeddings[h]
       /\ \A pid \in DOMAIN project_embeddings :
             project_embeddings'[pid].text_hash = project_embeddings[pid].text_hash
                => project_embeddings'[pid].embedding = project_embeddings[pid].embedding]_vars

\* The part of C11 that the code keeps: no entry of either cache is ever
\* written a second time.
C11_NeverOverwritten ==
    [][/\ \A h \in DOMAIN cv_embeddings : cv_embeddings'[h] = cv_embeddings[h]
       /\ \A pid \in DOMAIN project_embeddings :
             project_embeddings'[pid] = project_embeddings[pid]]_vars

(***************************************************************************)
(* Content store: file_manager.FileManager over table uploaded_documents   *)
(* and the storage directory.  A path under the storage directory is the   *)
(* pair <<file_hash, extension>> (the shard directories are the first      *)
(* characters of the hash); a file holds bytes, and is incomplete when the *)
(* copy that wrote it stopped part-way.  file_size and uploaded_at are not *)
(* kept.                                                                   *)
(***************************************************************************)
\* save_file's "return None" (line 87); row ids start at 1.
NoId == 0
NoPath == << >>

\* Path(original_filename).suffix
Suffix(original_filename) ==
    CASE original_filename = "test_doc.pdf" -> ".pdf"
      [] original_filename = "duplicate_name.pdf" -> ".pdf"
      [] original_filename = "test_doc.txt" -> ".txt"
      [] original_filename = "orphan.txt" -> ".txt"
      [] OTHER -> ""

\* mimetypes.guess_type(original_filename)[0]
guess_type(original_filename) ==
    CASE Suffix(original_filename) = ".pdf" -> "application/pdf"
      [] Suffix(original_filename) = ".txt" -> "text/plain"
      [] OTHER -> None

\* FileManager._calculate_hash
calculate_hash(bytes) == sha256(bytes)

\* Lines 52-57: shard_dir / f"{file_hash}{file_ext}"
StoragePath(file_hash, original_filename) == <<file_hash, Suffix(original_filename)>>

\* id = Column(Integer, primary_key=True, autoincrement=True) on SQLite: the
\* new row gets the largest id of the table plus one.
NewDocumentId(docs) ==
    IF docs = {} THEN 1
    ELSE (CHOOSE i \in {d.id : d \in docs} : \A d \in docs : d.id <= i) + 1

DocByHash(docs, file_hash) == {d \in docs : d.file_hash = file_hash}
DocById(docs, document_id) == {d \in docs : d.id = document_id}

WriteOutcomes == {"ok", "partial", "denied"}

\* Lines 60-62: open(storage_path, "wb") and shutil.copyfileobj.  "denied":
\* open raises and nothing is written; "partial": the copy raises after the
\* file was created and holds a part of the bytes.
WriteFile(files, storage_path, bytes, outcome) ==
    IF outcome = "denied" THEN files
    ELSE [q \in DOMAIN files \cup {storage_path} |->
            IF q = storage_path
            THEN [bytes |-> bytes, complete |-> outcome = "ok"]
            ELSE files[q]]

CommitAfterFailedWrite(outcome) == TRUE

\* Lines 60-78: the row is added and committed only when the write returned.
CommitAfterWrite(outcome) == outcome = "ok"

ExistingDocNever(docs, file_hash) == {}

\* Line 46: the row of this hash, if any.
ExistingDoc(docs, file_hash) == DocByHash(docs, file_hash)

\* FileManager.save_file
save_file(docs, files, bytes, original_filename, document_type, outcome) ==
    LET file_hash == calculate_hash(bytes)
        existing_doc == ExistingDoc(docs, file_hash)
        storage_path == StoragePath(file_hash, original_filename)
        written == WriteFile(files, storage_path, bytes, outcome)
        new_doc == [id |-> NewDocumentId(docs), file_hash |-> file_hash,
                    original_filename |-> original_filename,
                    file_path |-> storage_path,
                    mime_type |-> guess_type(original_filename),
                    document_type |-> document_type]
    IN
    IF existing_doc # {}
    THEN [ret |-> (CHOOSE d \in existing_doc : TRUE).id, docs |-> docs, files |-> files]
    ELSE IF CommitAfterWrite(outcome)
    THEN [ret |-> new_doc.id, docs |-> docs \cup {new_doc}, files |-> written]
    ELSE [ret |-> NoId, docs |-> docs, files |-> written]

\* FileManager.get_file_path
get_file_path(docs, document_id) ==
    IF DocById(docs, document_id) # {}
    THEN (CHOOSE d \in DocById(docs, document_id) : TRUE).file_path
    ELSE NoPath

DeleteWithFile(docs, files, document_id) ==
    [ret |-> DocById(docs, document_id) # {},
     docs |-> docs \ DocById(docs, document_id),
     files |-> [q \in DOMAIN files \ {d.file_path : d \in DocById(docs, document_id)} |->
                  files[q]]]

\* FileManager.delete_file: session.delete of the row; the file stays.
delete_file(docs, files, document_id) ==
    [ret |-> DocById(docs, document_id) # {},
     docs |-> docs \ DocById(docs, document_id),
     files |-> files]

\* Lines 132-134
KnownPaths(docs) == {d.file_path : d \in docs}

CleanupNothing(docs, files) == [ret |-> 0, files |-> files]

\* FileManager.cleanup_orphans: every file whose path no row holds is
\* unlinked and counted.
cleanup_orphans(docs, files) ==
    [ret |-> Cardinality(DOMAIN files \ KnownPaths(docs)),
     files |-> [q \in DOMAIN files \cap KnownPaths(docs) |-> files[q]]]

(***************************************************************************)
(* Inputs and actions of the content store (specification SpecStore).      *)
(***************************************************************************)
FileBytes == {"Hello World PDF Content", "I am lost"}
\* What is uploaded: the two uploads of test_save_and_deduplication, the same
\* bytes under a name of another extension, and a second content.
Uploads ==
    {[bytes |-> "Hello World PDF Content", name |-> "test_doc.pdf", type |-> "cv"],
     [bytes |-> "Hello World PDF Content", name |-> "duplicate_name.pdf", type |-> "other"],
     [bytes |-> "Hello World PDF Content", name |-> "test_doc.txt", type |-> "cv"],
     [bytes |-> "I am lost", name |-> "orphan.txt", type |-> "other"]}
\* Largest row id handed out.
MaxDocumentId == 3

SaveFile ==
    \E u \in Uploads :
    \E outcome \in IF ExistingDoc(documents, calculate_hash(u.bytes)) # {}
                   THEN {"ok"} ELSE WriteOutcomes :
    LET out == save_file(documents, storage, u.bytes, u.name, u.type, outcome) IN
    /\ out.ret <= MaxDocumentId
    /\ documents' = out.docs
    /\ storage' = out.files
    /\ flast' = [op |-> "save", bytes |-> u.bytes, original_filename |-> u.name,
                 document_type |-> u.type, outcome |-> outcome, ret |-> out.ret,
                 hit |-> ExistingDoc(documents, calculate_hash(u.bytes)) # {}]
    /\ UNCHANGED <<scorerVars, embedVars, otherVars>>

GetFilePath ==
    \E document_id \in 1..MaxDocumentId :
    /\ flast' = [op |-> "get_path", document_id |-> document_id,
                 ret |-> get_file_path(documents, document_id)]
    /\ UNCHANGED <<documents, storage, scorerVars, embedVars, otherVars>>

DeleteFile ==
    \E document_id \in 1..MaxDocumentId :
    LET out == delete_file(documents, storage, document_id) IN
    /\ documents' = out.docs
    /\ storage' = out.files
    /\ flast' = [op |-> "delete", document_id |-> document_id, ret |-> out.ret]
    /\ UNCHANGED <<scorerVars, embedVars, otherVars>>

CleanupOrphans ==
    LET out == cleanup_orphans(documents, storage) IN
    /\ storage' = out.files
    /\ flast' = [op |-> "sweep", ret |-> out.ret]
    /\ UNCHANGED <<documents, scorerVars, embedVars, otherVars>>

NextStore == SaveFile \/ GetFilePath \/ DeleteFile \/ CleanupOrphans
SpecStore == Init /\ [][NextStore]_vars

(***************************************************************************)
(* Properties of the content store (SpecStore).                            *)
(***************************************************************************)
\* C12: deduplication. When a record of the bytes exists, a save of the same
\* bytes under any name and logical type returns that record's id, inserts
\* no record and writes no bytes.
C12_Dedup ==
    [][flast'.op = "save" =>
         \A d \in documents :
            d.file_hash = calculate_hash(flast'.bytes) =>
               /\ flast'.ret = d.id
               /\ documents' = documents
               /\ storage' = storage]_vars

\* C12 witness: a save of bytes that were stored under another name and
\* another logical type returned the stored record's id.
C12_Witness ==
    /\ flast.op = "save" /\ flast.hit
    /\ \E d \in documents :
          /\ d.id = flast.ret
          /\ d.original_filename # flast.original_filename
          /\ d.document_type # flast.document_type

\* The complete files of the storage directory that hold the given bytes.
FilesOf(files, bytes) ==
    {q \in DOMAIN files : files[q].complete /\ files[q].bytes = bytes}

\* C13 as claimed: in every state reachable by save, delete and sweep calls
\* the storage directory holds at most one file per distinct byte sequence,
\* under however many names, of whatever extension, the bytes were uploaded.
C13_OneFilePerContent ==
    \A b \in FileBytes : Cardinality(FilesOf(storage, b)) <= 1

\* What the code keeps: the bytes of every record are in exactly one complete
\* file that a record references.
C13_OneFilePerStoredContent ==
    \A b \in FileBytes :
       DocByHash(documents, calculate_hash(b)) # {} =>
          Cardinality({q \in FilesOf(storage, b) : q \in KnownPaths(documents)}) = 1

\* C14: the record is inserted and committed only after the byte write has
\* succeeded. A save whose write fails returns no id, leaves the set of
\* records unchanged, and no record references the file it may have left;
\* every file a record references is complete.
C14_RecordAfterWrite ==
    [][flast'.op = "save" =>
         /\ (~flast'.hit /\ flast'.outcome # "ok") =>
               /\ flast'.ret = NoId
               /\ documents' = documents
               /\ \A d \in documents' :
                     d.file_path # StoragePath(calculate_hash(flast'.bytes),
                                               flast'.original_filename)
         /\ \A d \in documents' :
               /\ d.file_path \in DOMAIN storage'
               /\ storage'[d.file_path].complete]_vars

\* C14 witness: a save failed part-way and left an incomplete file, while
\* another record exists.
C14_Witness ==
    /\ flast.op = "save" /\ flast.outcome = "partial" /\ flast.ret = NoId
    /\ documents # {}
    /\ LET q == StoragePath(calculate_hash(flast.bytes), flast.original_filename) IN
       q \in DOMAIN storage /\ ~storage[q].complete

EMBEDDING_TOP_K == 20
MIN_SIMILARITY_THRESHOLD == 30

\* Line 124: the text the candidate is embedded from.
CvText(cv_data) == <<"skills experience education", cv_data>>

WasCachedNever(match_result) == FALSE

\* Line 145: match_result.get("was_cached")
WasCached(match_result) == Get(match_result, "was_cached", FALSE)

KeepByScoreOnly(match_result, min_score) ==
    Get(match_result, "overall_score", 0) >= min_score

\* Lines 153-155: score >= min_score or "error" in match_result
Keep(match_result, min_score) ==
    Get(match_result, "overall_score", 0) >= min_score \/ "error" \in DOMAIN match_result

ScriptEntry(script, i) == script[((i - 1) % Len(script)) + 1]

PauseDueNever(api_calls) == FALSE

\* Lines 149-151: time.sleep(2) when api_calls % 10 == 0. (sleeps lists the
\* positions of the candidates after whose scorer call the loop slept.)
PauseDue(api_calls) == api_calls % 10 = 0

\* Lines 145-156: what the loop does with the result of one scorer call.  A
\* scorer call that raises ends the batch with that exception.
ScoreStep(acc, out, min_score) ==
    IF out.raised
    THEN [acc EXCEPT !.raised = TRUE, !.rows = out.rows,
                     !.results = Append(@, [ret |-> PyNone, calls |-> out.calls,
                                            primary |-> out.primary,
                                            secondary |-> out.secondary])]
    ELSE [rows |-> out.rows,
          results |-> Append(acc.results, [ret |-> out.ret, calls |-> out.calls,
                                           primary |-> out.primary,
                                           secondary |-> out.secondary]),
          matches |-> IF Keep(out.ret, min_score)
                      THEN Append(acc.matches, out.ret) ELSE acc.matches,
          api_calls |-> IF WasCached(out.ret) THEN acc.api_calls ELSE acc.api_calls + 1,
          cache_hits |-> IF WasCached(out.ret) THEN acc.cache_hits + 1 ELSE acc.cache_hits,
          sleeps |-> IF ~WasCached(out.ret) /\ PauseDue(acc.api_calls + 1)
                     THEN Append(acc.sleeps, Len(acc.results) + 1) ELSE acc.sleeps,
          raised |-> FALSE]

\* Lines 142-143: the loop over the candidates.  (A value that is used more
\* than once is bound as the element of a singleton set, so that it is
\* computed once.)
RECURSIVE ScoreCandidates(_, _, _, _, _, _)
ScoreCandidates(cv_data, candidates, script, min_score, i, acc) ==
    IF i > Len(candidates) \/ acc.raised THEN acc
    ELSE CHOOSE r \in
            {ScoreCandidates(cv_data, candidates, script, min_score, i + 1, next) :
               next \in {ScoreStep(acc, out, min_score) :
                           out \in {match_project_to_cv(acc.rows, cv_data, candidates[i],
                                                        ScriptEntry(script, i).prim,
                                                        ScriptEntry(script, i).sec)}}} : TRUE

Unsorted(matches) == matches

\* Line 159: matches.sort(key=overall_score, reverse=True): stable, descending.
RECURSIVE SortByScore(_)
SortByScore(matches) ==
    IF matches = << >> THEN << >>
    ELSE LET RECURSIVE Insert(_, _)
             Insert(sorted, x) ==
                 IF sorted = << >> THEN <<x>>
                 ELSE IF Get(Head(sorted), "overall_score", 0) >= Get(x, "overall_score", 0)
                 THEN <<Head(sorted)>> \o Insert(Tail(sorted), x)
                 ELSE <<x>> \o sorted
         IN Insert(SortByScore(SubSeq(matches, 1, Len(matches) - 1)), matches[Len(matches)])

\* Lines 165-172: the metrics record goes into the first match, if there is one.
AttachMetrics(matches, metrics) ==
    IF matches = << >> THEN matches
    ELSE <<Put(Head(matches), "_metrics", metrics)>> \o Tail(matches)

\* Lines 161-174: the sorted matches with the metrics record.
BatchOutput(projects, pre, loop) ==
    [ret |-> IF loop.raised THEN << >>
             ELSE AttachMetrics(SortByScore(loop.matches),
                                [total_projects |-> Len(projects),
                                 candidates |-> Len(pre.ret),
                                 api_calls |-> loop.api_calls,
                                 cache_hits |-> loop.cache_hits]),
     raised |-> loop.raised, candidates |-> pre.ret, results |-> loop.results,
     prefilter_failed |-> pre.failed, sleeps |-> loop.sleeps,
     rows |-> loop.rows, cvtab |-> pre.cvtab, ptab |-> pre.ptab]

\* Lines 135-174: the detailed matching of the candidates `pre` holds.
BatchAfterPrefilter(rows, cv_data, projects, min_score, script, pre) ==
    CHOOSE r \in
       {BatchOutput(projects, pre, loop) :
          loop \in {ScoreCandidates(cv_data, pre.ret, script, min_score, 1,
                       [rows |-> rows, results |-> << >>, matches |-> << >>,
                        api_calls |-> 0, cache_hits |-> 0, sleeps |-> << >>,
                        raised |-> FALSE])}} : TRUE

\* matcher.batch_match_projects
batch_match_projects(rows, cvtab, ptab, cv_data, projects, min_score, hybrid, env, script) ==
    CHOOSE r \in
       {BatchAfterPrefilter(rows, cv_data, projects, min_score, script, pre) :
          pre \in {IF hybrid
                   THEN prefilter_projects(cvtab, ptab, CvText(cv_data), projects,
                                           EMBEDDING_TOP_K, MIN_SIMILARITY_THRESHOLD, env)
                   ELSE [ret |-> projects, failed |-> FALSE, cvtab |-> cvtab,
                         ptab |-> ptab]}} : TRUE

(***************************************************************************)
(* Inputs and action of the orchestrator (specification SpecBatch).        *)
(***************************************************************************)
\* Ten projects, three of them close to the candidate.
TenTitles == <<"ML Engineer", "Data Scientist", "Data Analyst", "Java Developer",
               "Frontend", "Accountant", "Java Developer", "Frontend",
               "Accountant", "Java Developer">>
TenIds == <<"1", "2", "3", "4", "5", "6", "7", "8", "9", "10">>
TenProjects == [i \in 1..10 |-> [id |-> TenIds[i], title |-> TenTitles[i], company |-> "Corp"]]
\* Twenty projects: the ten, and ten more of another company.
MoreIds == <<"11", "12", "13", "14", "15", "16", "17", "18", "19", "20">>
TwentyProjects ==
    TenProjects \o [i \in 1..10 |-> [id |-> MoreIds[i], title |-> TenTitles[i],
                                     company |-> "Lab"]]

\* What SentenceTransformer.encode returns in a batch run: a vector per text.
EncodeText(content) ==
    CASE content[1] = "Data Scientist" -> <<5, 0>>
      [] content[1] \in {"ML Engineer", "Data Analyst"} -> <<4, 3>>
      [] OTHER -> <<-3, 4>>
EncodeCvText(cv_text) == <<5, 0>>

\* The calls made: the project list, USE_HYBRID_MATCHING, min_score, and
\* whether the embedding backend fails during the call.
BatchCalls ==
    {[projects |-> TenProjects, hybrid |-> TRUE, min_score |-> 0, embed_fails |-> FALSE],
     [projects |-> TenProjects, hybrid |-> TRUE, min_score |-> 50, embed_fails |-> FALSE],
     [projects |-> TenProjects, hybrid |-> FALSE, min_score |-> 0, embed_fails |-> FALSE],
     [projects |-> <<TenProjects[2], Q>>, hybrid |-> FALSE, min_score |-> 50,
      embed_fails |-> FALSE],
     [projects |-> <<TenProjects[3], Q>>, hybrid |-> TRUE, min_score |-> 0,
      embed_fails |-> TRUE],
     [projects |-> << >>, hybrid |-> FALSE, min_score |-> 0, embed_fails |-> FALSE]}

\* What the backends do in one scorer call of a batch.
Ok85 == [prim |-> [raises |-> FALSE, api_key |-> TRUE, responses |-> <<Answer(TxtVerdict85)>>],
         sec |-> Unused]
Fallback40 == [prim |-> [raises |-> TRUE, api_key |-> TRUE, responses |-> << >>],
               sec |-> [api_key |-> TRUE, response |-> Answer(TxtVerdict40)]]
BothFail == [prim |-> [raises |-> FALSE, api_key |-> TRUE,
                       responses |-> <<ErrOther, Answer(""), Answer(TxtGarbage)>>],
             sec |-> [api_key |-> TRUE, response |-> ErrOther]]
AnswersList == [prim |-> [raises |-> FALSE, api_key |-> TRUE, responses |-> <<Answer(TxtList)>>],
                sec |-> Unused]
BatchScripts ==
    {<<Ok85>>, <<Fallback40, Ok85, BothFail>>, <<BothFail, BothFail, Ok85>>,
     <<Ok85, AnswersList>>}

\* Runs of twenty and of ten projects without pre-filtering, for the pacing
\* of the loop.
PacedCalls ==
    {[projects |-> TwentyProjects, hybrid |-> FALSE, min_score |-> 0, embed_fails |-> FALSE],
     [projects |-> TenProjects, hybrid |-> FALSE, min_score |-> 50, embed_fails |-> FALSE]}
PacedScripts == {<<Ok85>>, <<BothFail, BothFail, Ok85>>, <<Ok85, Fallback40, BothFail, Ok85>>}

\* gemini_client.py 13-15 and 37-39, perplexity_enricher.py 22-24: the API keys
\* are settings read at import, the same for every call of one run.  A run is
\* configured when a backend has its key.
Configured(script) ==
    \E i \in 1..Len(script) : script[i].prim.api_key \/ script[i].sec.api_key

BatchOver(calls, scripts) ==
    \E cv_data \in {"cvA"}, call \in calls, script \in scripts :
    LET to_embed == ToEmbed(project_embeddings, call.projects)
        env == [cv_enc |-> IF call.embed_fails THEN EncodeRaises
                           ELSE Encoded(EncodeCvText(CvText(cv_data))),
                proj_encs |-> [i \in 1..Len(to_embed) |-> EncodeText(to_embed[i].content)],
                fail_batch |-> 0,
                sim_raises |-> call.embed_fails]
    IN
    \E out \in {batch_match_projects(match_cache, cv_embeddings, project_embeddings,
                                     cv_data, call.projects, call.min_score,
                                     call.hybrid, env, script)} :
    /\ match_cache' = out.rows
    /\ cv_embeddings' = out.cvtab
    /\ project_embeddings' = out.ptab
    /\ last' = [op |-> "batch", cv_hash |-> sha256(cv_data), projects |-> call.projects,
                min_score |-> call.min_score, hybrid |-> call.hybrid,
                candidates |-> out.candidates, results |-> out.results,
                ret |-> out.ret, raised |-> out.raised,
                prefilter_failed |-> out.prefilter_failed, sleeps |-> out.sleeps,
                configured |-> Configured(script)]
    /\ UNCHANGED <<elast, storeVars, otherVars>>

Batch == BatchOver(BatchCalls, BatchScripts)
BatchPaced == BatchOver(PacedCalls, PacedScripts)

NextBatch == Batch
SpecBatch == Init /\ [][NextBatch]_vars
NextPaced == BatchPaced
SpecPaced == Init /\ [][NextPaced]_vars

(***************************************************************************)
(* Properties of the orchestrator (SpecBatch).                             *)
(***************************************************************************)
\* The scorer results of the last batch that came from the cache: no backend
\* was called for them.
ServedFromCache == {i \in 1..Len(last.results) : last.results[i].calls = << >>}
WithoutMetrics(match) == [k \in DOMAIN match \ {"_metrics"} |-> match[k]]
ScoreOf(match) == Get(match, "overall_score", 0)
Occurrences(seq, x) == Cardinality({i \in 1..Len(seq) : seq[i] = x})
BatchReturned == last.op = "batch" /\ ~last.raised

\* C17: the metrics of a batch run count what happened: total_projects is
\* the size of the input list, candidates the size of the candidate set,
\* cache_hits the number of scorer results served from the cache, api_calls
\* the number of the others, so cache_hits + api_calls = candidates <=
\* total_projects; ten projects reduced to three candidates with one of them
\* cached give {total_projects: 10, candidates: 3, api_calls: 2, cache_hits: 1}.
C17_MetricsCount ==
    (BatchReturned /\ last.ret # << >>) =>
       /\ "_metrics" \in DOMAIN last.ret[1]
       /\ LET m == last.ret[1]._metrics IN
          /\ m.total_projects = Len(last.projects)
          /\ m.candidates = Len(last.candidates)
          /\ m.cache_hits = Cardinality(ServedFromCache)
          /\ m.api_calls = Len(last.results) - Cardinality(ServedFromCache)
          /\ m.cache_hits + m.api_calls = m.candidates
          /\ m.candidates <= m.total_projects
          /\ (Len(last.projects) = 10 /\ Len(last.candidates) = 3
                 /\ Cardinality(ServedFromCache) = 1) =>
                m = [total_projects |-> 10, candidates |-> 3, api_calls |-> 2,
                     cache_hits |-> 1]

\* C17 witness: a batch over ten projects scored three candidates, one of
\* them from the cache, and returned results.
C17_Witness ==
    /\ BatchReturned /\ last.ret # << >>
    /\ Len(last.projects) = 10 /\ Len(last.candidates) = 3
    /\ Cardinality(ServedFromCache) = 1

\* C18: the batch output holds exactly the scorer results of the candidates
\* whose overall score is >= the minimum threshold or that carry an error
\* field: an error result is included whatever the threshold, a result
\* without error below the threshold never.
C18_OutputIsFilteredResults ==
    BatchReturned =>
       LET results == [i \in 1..Len(last.results) |-> last.results[i].ret]
           output == [j \in 1..Len(last.ret) |-> WithoutMetrics(last.ret[j])]
           Wanted(r) == ScoreOf(r) >= last.min_score \/ "error" \in DOMAIN r
       IN
       /\ \A i \in 1..Len(results) :
             Occurrences(output, results[i]) =
                IF Wanted(results[i]) THEN Occurrences(results, results[i]) ELSE 0
       /\ \A j \in 1..Len(output) : Occurrences(results, output[j]) >= 1

\* C18 witness: with threshold 50 the scorer gave an error result, a result
\* below the threshold and a result above it.
C18_Witness ==
    /\ BatchReturned /\ last.min_score = 50
    /\ \E i, j, k \in 1..Len(last.results) :
          /\ "error" \in DOMAIN last.results[i].ret
          /\ "error" \notin DOMAIN last.results[j].ret /\ ScoreOf(last.results[j].ret) = 40
          /\ ScoreOf(last.results[k].ret) = 85
    /\ Len(last.ret) = 2

\* C19: the results of one batch are sorted by overall score in descending
\* order, an error result counting as score 0.
C19_SortedDescending ==
    BatchReturned =>
       \A j \in 1..(Len(last.ret) - 1) : ScoreOf(last.ret[j]) >= ScoreOf(last.ret[j + 1])

\* C19 witness: the scorer gave 40, then 85, then an error result, and the
\* batch returned the three.
C19_Witness ==
    /\ BatchReturned /\ Len(last.ret) = 3
    /\ ScoreOf(last.results[1].ret) < ScoreOf(last.results[2].ret)
    /\ "error" \in DOMAIN last.ret[3] /\ ScoreOf(last.ret[3]) = 0

HasEntry(output, project) ==
    \E j \in 1..Len(output) :
       /\ output[j].project_id = Get(project, "id", None)
       /\ output[j].project_title = Get(project, "title", None)

\* C20 as claimed: a batch always returns a result for every considered
\* project: the output holds an entry, a score or an error entry, for every
\* project of the candidate set.
C20_EntryForEveryCandidate ==
    last.op = "batch" =>
       /\ ~last.raised
       /\ \A i \in 1..Len(last.candidates) : HasEntry(last.ret, last.candidates[i])

\* What the code keeps: a batch that returns, called with threshold 0, has
\* an entry for every candidate.
C20_EntryForEveryCandidateAtThresholdZero ==
    (BatchReturned /\ last.min_score = 0) =>
       \A i \in 1..Len(last.candidates) : HasEntry(last.ret, last.candidates[i])

(***************************************************************************)
(* Project normalizer: project_extractor.normalize_projects.                *)
(* The texts it works on (title, description, application link, reference  *)
(* id) are sequences of one-character strings, so that strip, lower, the    *)
(* URL pattern, the keyword test and difflib's ratio are computed on the    *)
(* characters.                                                              *)
(***************************************************************************)
Whitespace == {" "}
UpperCase == <<"A", "B", "C", "D", "E", "F", "G", "H", "I", "J", "K", "L", "M",
               "N", "O", "P", "Q", "R", "S", "T", "U", "V", "W", "X", "Y", "Z">>
LowerCase == <<"a", "b", "c", "d", "e", "f", "g", "h", "i", "j", "k", "l", "m",
               "n", "o", "p", "q", "r", "s", "t", "u", "v", "w", "x", "y", "z">>

\* str.lower
LowerChar(c) ==
    CHOOSE l \in {IF is = {} THEN c ELSE LowerCase[CHOOSE i \in is : TRUE]
                    : is \in {{i \in 1..26 : UpperCase[i] = c}}} : TRUE
lower(s) == [i \in 1..Len(s) |-> LowerChar(s[i])]

\* str.strip
strip(s) ==
    LET inner == {i \in 1..Len(s) : s[i] \notin Whitespace} IN
    IF inner = {} THEN << >>
    ELSE SubSeq(s, CHOOSE i \in inner : \A j \in inner : i <= j,
                   CHOOSE i \in inner : \A j \in inner : j <= i)

\* s[i:i+len(sub)] == sub, positions counted from 1
OccursAt(s, i, sub) ==
    /\ i + Len(sub) - 1 <= Len(s)
    /\ \A k \in 1..Len(sub) : s[i + k - 1] = sub[k]
\* sub in s
Contains(s, sub) == \E i \in 1..(Len(s) + 1) : OccursAt(s, i, sub)

\* Line 221: the heads of url_pattern, in the order of its alternatives, and
\* the class [^\s<>"] of the characters that follow.
UrlHeads == <<<<"h", "t", "t", "p", "s", ":", "/", "/">>,
             <<"h", "t", "t", "p", ":", "/", "/">>,
             <<"w", "w", "w", ".">>,
             <<"b", "i", "t", ".", "l", "y", "/">>,
             <<"f", "o", "r", "m", "s", ".", "g", "l", "e", "/">>>>
UrlChar(c) == c \notin Whitespace \cup {"<", ">", "\""}

\* Whether url_pattern (re.IGNORECASE) matches at position i of s, whose
\* lower-case form is low: one head, then at least one character of the class.
UrlStartsAt(s, low, i) ==
    \E h \in 1..Len(UrlHeads) :
       /\ OccursAt(low, i, UrlHeads[h])
       /\ i + Len(UrlHeads[h]) <= Len(s)
       /\ UrlChar(s[i + Len(UrlHeads[h])])

\* url_pattern.search(s).group(0): the leftmost match, extended over the
\* characters of the class; << >> when there is no match.
UrlSearch(s) ==
    CHOOSE r \in
      {IF starts = {} THEN << >>
       ELSE LET i == CHOOSE x \in starts : \A y \in starts : x <= y
                stops == {j \in i..Len(s) : ~UrlChar(s[j])}
                last_char == IF stops = {} THEN Len(s)
                          ELSE (CHOOSE x \in stops : \A y \in stops : x <= y) - 1
            IN SubSeq(s, i, last_char)
         : starts \in {{i \in 1..Len(s) : UrlStartsAt(s, low, i)}
                          : low \in {lower(s)}}} : TRUE

\* difflib.SequenceMatcher.find_longest_match without junk: the blocks
\* a[i:i+k] == b[j:j+k], and of the longest ones the one that starts earliest
\* in a, and of those the one that starts earliest in b; <<1, 1, 0>> when the
\* two texts share no character.
Blocks(a, b) ==
    {x \in (1..Len(a)) \X (1..Len(b)) \X (1..Min(Len(a), Len(b))) :
        /\ x[1] + x[3] - 1 <= Len(a)
        /\ x[2] + x[3] - 1 <= Len(b)
        /\ \A d \in 0..(x[3] - 1) : a[x[1] + d] = b[x[2] + d]}
find_longest_match(a, b) ==
    LET blocks == Blocks(a, b) IN
    IF blocks = {} THEN <<1, 1, 0>>
    ELSE CHOOSE x \in blocks : \A y \in blocks :
            \/ x[3] > y[3]
            \/ x[3] = y[3] /\ x[1] < y[1]
            \/ x[3] = y[3] /\ x[1] = y[1] /\ x[2] <= y[2]

\* The sum of the sizes of SequenceMatcher.get_matching_blocks: the longest
\* block, then the same to its left and to its right.
RECURSIVE MatchingSize(_, _)
MatchingSize(a, b) ==
    IF Len(a) = 0 \/ Len(b) = 0 THEN 0
    ELSE CHOOSE m \in
           {IF x[3] = 0 THEN 0
            ELSE x[3]
                 + MatchingSize(SubSeq(a, 1, x[1] - 1), SubSeq(b, 1, x[2] - 1))
                 + MatchingSize(SubSeq(a, x[1] + x[3], Len(a)),
                                SubSeq(b, x[2] + x[3], Len(b)))
              : x \in {find_longest_match(a, b)}} : TRUE

\* SequenceMatcher(None, a, b).ratio() > 0.85, where ratio is 2.0 * M / T for
\* T = len(a) + len(b), and 1.0 when T is 0.
RatioAbove85(a, b) ==
    IF Len(a) + Len(b) = 0 THEN TRUE
    ELSE 200 * MatchingSize(a, b) > 85 * (Len(a) + Len(b))

\* p.get(k) is truthy: the key is there and its text is not empty.
HasText(p, k) == k \in DOMAIN p /\ p[k] # << >>

\* Lines 226-227 (basic validation).
Valid(p) == HasText(p, "title") /\ HasText(p, "description")

\* Lines 230-231.
CleanFields(p) ==
    [p EXCEPT !["title"] = strip(@), !["description"] = strip(@)]

\* Lines 234-240 (regex fallback for the link).
MethodLink == <<"l", "i", "n", "k">>
RegexFallback(p) ==
    IF HasText(p, "application_link") THEN p
    ELSE CHOOSE r \in
           {IF match = << >> THEN p
            ELSE Put(Put(p, "application_link", match),
                     "application_method", MethodLink)
              : match \in {UrlSearch(p["description"])}} : TRUE

\* Lines 242-246.
StripLink(p) ==
    IF HasText(p, "application_link")
    THEN [p EXCEPT !["application_link"] = strip(@)] ELSE p
StripReference(p) ==
    IF HasText(p, "reference_id")
    THEN [p EXCEPT !["reference_id"] = strip(@)] ELSE p

\* Lines 251-256: the title is compared with the titles accepted so far.
IsDuplicateCaseSensitive(title, seen_titles) ==
    \E i \in 1..Len(seen_titles) : RatioAbove85(title, seen_titles[i])
IsDuplicate(title, seen_titles) ==
    \E low \in {lower(title)} :
       \E i \in 1..Len(seen_titles) :
          RatioAbove85(low, lower(seen_titles[i]))

uuid4Repeats(count) == 1

\* Line 248: p["id"] = str(uuid.uuid4()), an identifier no earlier call has
\* given (count identifiers have been given so far).
uuid4(count) == count + 1

\* Lines 224-260, the first pass from record i on. acc is
\* [cleaned_projects, seen_titles, uuids]: uuid.uuid4 is called for every
\* valid record, duplicate or not, and its values are numbered as handed out.
RECURSIVE FirstPass(_, _, _)
FirstPass(projects, i, acc) ==
    IF i > Len(projects) THEN acc
    ELSE IF ~Valid(projects[i]) THEN FirstPass(projects, i + 1, acc)
    ELSE CHOOSE r \in
           {FirstPass(projects, i + 1,
              IF IsDuplicate(p["title"], acc.seen_titles)
              THEN [acc EXCEPT !.uuids = @ + 1]
              ELSE [cleaned_projects |-> Append(acc.cleaned_projects, p),
                    seen_titles |-> Append(acc.seen_titles, p["title"]),
                    uuids |-> acc.uuids + 1])
              : p \in {Put(StripReference(StripLink(RegexFallback(
                              CleanFields(projects[i])))),
                           "id", uuid4(acc.uuids))}} : TRUE

\* Lines 265-273: the first accepted link that holds a portal keyword.
PortalKeywords == {<<"s", "t", "a", "g", "e", "s">>,
                   <<"r", "e", "c", "r", "u", "t", "e", "m", "e", "n", "t">>,
                   <<"f", "o", "r", "m", "s">>,
                   <<"c", "a", "r", "e", "e", "r">>,
                   <<"a", "p", "p", "l", "y">>}
IsPortal(link) ==
    \E low \in {lower(link)} : \E k \in PortalKeywords : Contains(low, k)
PortalLinkLast(cleaned_projects) ==
    LET hits == {i \in 1..Len(cleaned_projects) :
                    /\ HasText(cleaned_projects[i], "application_link")
                    /\ IsPortal(cleaned_projects[i]["application_link"])}
    IN IF hits = {} THEN << >>
       ELSE cleaned_projects[CHOOSE i \in hits : \A j \in hits : j <= i]
                ["application_link"]
PortalLink(cleaned_projects) ==
    LET hits == {i \in 1..Len(cleaned_projects) :
                    /\ HasText(cleaned_projects[i], "application_link")
                    /\ IsPortal(cleaned_projects[i]["application_link"])}
    IN IF hits = {} THEN << >>
       ELSE cleaned_projects[CHOOSE i \in hits : \A j \in hits : i <= j]
                ["application_link"]

\* Lines 275-281 (second pass).
Inferred == <<"I", "n", "f", "e", "r", "r", "e", "d">>
Propagate(cleaned_projects, portal_link) ==
    IF portal_link = << >> THEN cleaned_projects
    ELSE [i \in 1..Len(cleaned_projects) |->
            IF HasText(cleaned_projects[i], "application_link")
            THEN cleaned_projects[i]
            ELSE Put(Put(Put(cleaned_projects[i],
                             "application_link", portal_link),
                         "application_method", MethodLink),
                     "_note", Inferred)]

\* normalize_projects, with the number of identifiers handed out before the
\* call; [ret, uuids].
normalize_projects(projects, uuids) ==
    CHOOSE r \in
      {[ret |-> Propagate(first.cleaned_projects,
                          PortalLink(first.cleaned_projects)),
        uuids |-> first.uuids]
         : first \in {FirstPass(projects, 1,
                        [cleaned_projects |-> << >>, seen_titles |-> << >>,
                         uuids |-> uuids])}} : TRUE

\* Raw project records handed to the normalizer.
\* RawBackend: title "Backend", an empty link.
RawBackend ==
    [title |-> <<"B", "a", "c", "k", "e", "n", "d">>,
     description |-> <<"A", "p", "i">>,
     application_link |-> << >>,
     application_method |-> <<"e", "m", "a", "i", "l">>]
\* RawBackendSpace: the same title with a trailing space, and a portal link.
RawBackendSpace ==
    [title |-> <<"B", "a", "c", "k", "e", "n", "d", " ">>,
     description |-> <<"A", "p", "i", " ", "b">>,
     application_link |-> <<"h", "t", "t", "p", ":", "/", "/", "s", "t", "a", "g", "e", "s", ".", "f">>,
     application_method |-> <<"l", "i", "n", "k">>]
\* RawData: no link key, a reference id to trim.
RawData ==
    [title |-> <<"D", "a", "t", "a">>,
     description |-> <<"M", "l">>,
     reference_id |-> <<" ", "7">>]
\* RawBackends: a near-duplicate title in capitals, a URL in the description.
RawBackends ==
    [title |-> <<"B", "A", "C", "K", "E", "N", "D", "S">>,
     description |-> <<"s", "e", "e", " ", "w", "w", "w", ".", "x", ".", "c", "o", " ", "n", "o", "w">>,
     application_method |-> <<"e", "m", "a", "i", "l">>]
\* RawBlankTitle: a title of one space, a portal link with spaces around it.
RawBlankTitle ==
    [title |-> <<" ">>,
     description |-> <<"x">>,
     application_link |-> <<" ", "h", "t", "t", "p", ":", "/", "/", "f", "o", "r", "m", "s", ".", "x", " ">>,
     application_method |-> <<"l", "i", "n", "k">>]
\* RawNoTitle: no title key.
RawNoTitle ==
    [description |-> <<"x">>,
     application_link |-> <<"h", "t", "t", "p", ":", "/", "/", "a", "p", "p", "l", "y", ".", "i", "o">>]
\* RawBacking: a title close to "Backend" but under the threshold, a link of
\* one space, a URL in the description.
RawBacking ==
    [title |-> <<"B", "a", "c", "k", "i", "n", "g">>,
     description |-> <<"U", "i", " ", "w", "w", "w", ".", "y", ".", "i", "o">>,
     application_link |-> <<" ">>]
RawProjects == {RawBackend, RawBackendSpace, RawData, RawBackends,
                RawBlankTitle, RawNoTitle, RawBacking}

MaxProjects == 3
MaxUuids == 3
RECURSIVE ListsUpTo(_, _)
ListsUpTo(S, n) ==
    IF n = 0 THEN {<< >>}
    ELSE LET shorter == ListsUpTo(S, n - 1) IN
         shorter \cup {Append(l, x) : l \in shorter, x \in S}
NormalizeInputs == ListsUpTo(RawProjects, MaxProjects)

\* One call normalize_projects(projects).
Normalize ==
    \E projects \in NormalizeInputs :
       /\ uuid_count + Len(projects) <= MaxUuids
       /\ \E out \in {normalize_projects(projects, uuid_count)} :
             /\ nlast' = [op |-> "normalize", projects |-> projects,
                          ret |-> out.ret]
             /\ uuid_count' = out.uuids
       /\ UNCHANGED <<scorerVars, embedVars, storeVars, poolVars, glast, db_faults, threads>>

NextNormalize == Normalize
SpecNormalize == Init /\ [][NextNormalize]_vars

(***************************************************************************)
(* Properties of the project normalizer.                                    *)
(***************************************************************************)
\* The records of the last input that pass the validation, by position, and
\* their trimmed titles.
ValidIdx == {i \in 1..Len(nlast.projects) : Valid(nlast.projects[i])}
TitleOf(i) == strip(nlast.projects[i]["title"])
Similar(i, j) == RatioAbove85(lower(TitleOf(i)), lower(TitleOf(j)))
\* The n-th smallest element of a set of positions.
Nth(K, n) == CHOOSE i \in K : Cardinality({j \in K : j <= i}) = n

\* C21: the valid records are examined in input order and one is discarded
\* exactly when the case-insensitive ratio of its trimmed title to the title
\* of some previously accepted record exceeds 0.85. The output holds the
\* accepted records in input order (the first-seen record of a group is the
\* one kept), no output title has a ratio above 0.85 to an earlier output
\* title, and records whose titles differ only by surrounding whitespace give
\* at most one entry.
C21_Dedup ==
    nlast.op = "normalize" =>
      /\ \E K \in SUBSET ValidIdx :
            /\ \A i \in ValidIdx :
                  i \in K <=> ~\E j \in K : j < i /\ Similar(i, j)
            /\ Len(nlast.ret) = Cardinality(K)
            /\ \A n \in 1..Len(nlast.ret) :
                  nlast.ret[n]["title"] = TitleOf(Nth(K, n))
      /\ \A n \in 1..Len(nlast.ret) : \A m \in 1..(n - 1) :
            ~RatioAbove85(lower(nlast.ret[n]["title"]),
                          lower(nlast.ret[m]["title"]))
      /\ \A i \in ValidIdx :
            Cardinality({n \in 1..Len(nlast.ret) :
                            nlast.ret[n]["title"] = TitleOf(i)}) <= 1

\* C21 witness: three valid records with three different titles, the third a
\* duplicate of the first in other letter case, the second close to the first
\* but not above the threshold; two records come out.
C21_Witness ==
    /\ nlast.op = "normalize"
    /\ Len(nlast.projects) = 3 /\ ValidIdx = {1, 2, 3}
    /\ TitleOf(1) # TitleOf(3) /\ Similar(3, 1) /\ ~Similar(2, 1)
    /\ MatchingSize(lower(TitleOf(2)), lower(TitleOf(1))) > 0
    /\ Len(nlast.ret) = 2
    /\ nlast.ret[1]["title"] = TitleOf(1) /\ nlast.ret[2]["title"] = TitleOf(2)

\* The input record an output record comes from: the first valid record with
\* its title (a later record with the same trimmed title is a duplicate).
Origin(n) ==
    nlast.projects[CHOOSE i \in ValidIdx :
                      /\ TitleOf(i) = nlast.ret[n]["title"]
                      /\ \A j \in ValidIdx :
                            TitleOf(j) = nlast.ret[n]["title"] => i <= j]
LinkOf(p) == Get(p, "application_link", << >>)
HasNote(p) == "_note" \in DOMAIN p
BackFilled(p, portal) ==
    /\ LinkOf(p) = portal
    /\ Get(p, "application_method", << >>) = MethodLink
    /\ HasNote(p)

\* C22 as stated: when some accepted record came with a portal link, every
\* accepted record that came without a link (no key, or the empty string) has
\* that portal link, method link and a note, and every accepted record that
\* came with a link has that very link and no note.
C22_Propagation ==
    nlast.op = "normalize" =>
      LET accepted == 1..Len(nlast.ret)
          portals == {LinkOf(Origin(n)) : n \in {m \in accepted :
                                            IsPortal(LinkOf(Origin(m)))}}
      IN portals # {} =>
           \E portal \in portals : \A n \in accepted :
              IF LinkOf(Origin(n)) = << >>
              THEN BackFilled(nlast.ret[n], portal)
              ELSE /\ LinkOf(nlast.ret[n]) = LinkOf(Origin(n))
                   /\ ~HasNote(nlast.ret[n])

\* The link a record has after the first pass: its own link trimmed, or, when
\* it came without one, the first URL of its trimmed description (<< >> when
\* there is none).
FirstPassLink(p) ==
    IF LinkOf(p) # << >> THEN strip(LinkOf(p))
    ELSE UrlSearch(strip(p["description"]))

\* C22 amended: the links are taken as they are after the first pass. When
\* some accepted record then has a portal link, the first such link in output
\* order is given, with method link and a note, to every accepted record whose
\* link is then missing or empty, and every other accepted record keeps its
\* first-pass link and has no note. When no accepted record has a portal link,
\* nothing is back-filled: the link of a discarded duplicate is never used.
C22_PropagationAfterFirstPass ==
    nlast.op = "normalize" =>
      LET accepted == 1..Len(nlast.ret)
          holders == {n \in accepted : IsPortal(FirstPassLink(Origin(n)))}
      IN IF holders # {}
         THEN LET portal == FirstPassLink(Origin(Nth(holders, 1))) IN
              \A n \in accepted :
                 IF FirstPassLink(Origin(n)) = << >>
                 THEN BackFilled(nlast.ret[n], portal)
                 ELSE /\ LinkOf(nlast.ret[n]) = FirstPassLink(Origin(n))
                      /\ ~HasNote(nlast.ret[n])
         ELSE \A n \in accepted :
                 /\ LinkOf(nlast.ret[n]) = FirstPassLink(Origin(n))
                 /\ ~HasNote(nlast.ret[n])

\* C22 witness: three accepted records, the second with a portal link, the
\* first and the third without a link; both have been given the second's link
\* and a note, the second has no note.
C22_Witness ==
    /\ nlast.op = "normalize"
    /\ Len(nlast.ret) = 3
    /\ IsPortal(LinkOf(Origin(2)))
    /\ ~HasText(Origin(1), "application_link")
    /\ FirstPassLink(Origin(1)) = << >> /\ FirstPassLink(Origin(3)) = << >>
    /\ BackFilled(nlast.ret[1], LinkOf(nlast.ret[2]))
    /\ BackFilled(nlast.ret[3], LinkOf(nlast.ret[2]))
    /\ ~HasNote(nlast.ret[2])

\* C23: no record of the normalized output has an empty title or an empty
\* description.
C23_NoEmptyTitleOrDescription ==
    nlast.op = "normalize" =>
      \A n \in 1..Len(nlast.ret) :
         /\ HasText(nlast.ret[n], "title")
         /\ HasText(nlast.ret[n], "description")

(***************************************************************************)
(* Parallel document extraction: batch_processor.process_pdfs_parallel.     *)
(* futures is the call in progress: its arguments and, per submitted file,  *)
(* the task of the thread pool ("queued", "running", "finished" with the    *)
(* outcome of extract_text_from_pdf) and whether as_completed has yielded   *)
(* it. The pool takes queued tasks in submission order while fewer than     *)
(* max_workers are running; the caller's loop handles the finished tasks in *)
(* any order.                                                               *)
(***************************************************************************)
Path(parent, name) == [parent |-> parent, name |-> name]
FilePaths == {Path("in", "a.pdf"), Path("in", "b.pdf"), Path("old", "a.pdf")}
MaxFiles == 3
FileLists == ListsUpTo(FilePaths, MaxFiles)
Workers == {1, 2}

\* What extract_text_from_pdf may do for a file: return its dictionary, or
\* raise.
ContentOf(path) == IF path.name = "a.pdf" THEN "Content of a.pdf"
                   ELSE "Content of b.pdf"
Extracted(path) ==
    [raised |-> FALSE,
     data |-> [text |-> ContentOf(path), method_used |-> "pdfplumber",
               confidence |-> 1, page_count |-> 1]]
ExtractRaised == [raised |-> TRUE, error |-> "Processing failed"]
ExtractOutcomes(path) == {Extracted(path), ExtractRaised}

\* Lines 20-23: the executor is created and every file is submitted.
Submit ==
    /\ futures.phase \in {"idle", "returned"}
    /\ \E file_paths \in FileLists, max_workers \in Workers :
          futures' = [phase |-> "running", file_paths |-> file_paths,
                      max_workers |-> max_workers,
                      tasks |-> [i \in 1..Len(file_paths) |->
                                   [path |-> file_paths[i], state |-> "queued",
                                    yielded |-> FALSE]]]
    /\ pool_results' = << >>
    /\ UNCHANGED <<scorerVars, embedVars, storeVars, normVars, glast, db_faults, threads>>

\* A worker thread takes the oldest queued task.
Running(tasks) == {i \in 1..Len(tasks) : tasks[i].state = "running"}
Queued(tasks) == {i \in 1..Len(tasks) : tasks[i].state = "queued"}
StartTask ==
    /\ futures.phase = "running"
    /\ Cardinality(Running(futures.tasks)) < futures.max_workers
    /\ Queued(futures.tasks) # {}
    /\ LET i == Nth(Queued(futures.tasks), 1) IN
       futures' = [futures EXCEPT !.tasks[i].state = "running"]
    /\ UNCHANGED <<scorerVars, embedVars, storeVars, normVars, glast, db_faults,
                   pool_results, threads>>

\* extract_text_from_pdf ends in a worker thread; the future keeps its result
\* or its exception.
FinishTask ==
    /\ futures.phase = "running"
    /\ \E i \in Running(futures.tasks) :
       \E outcome \in ExtractOutcomes(futures.tasks[i].path) :
          futures' = [futures EXCEPT
                        !.tasks[i] = [path |-> @.path, state |-> "finished",
                                      yielded |-> FALSE, outcome |-> outcome]]
    /\ UNCHANGED <<scorerVars, embedVars, storeVars, normVars, glast, db_faults,
                   pool_results, threads>>

\* Lines 26-41, one turn of the loop over as_completed for a finished task.
ErrorEntryLost(path, outcome) ==
    [text |-> "", method_used |-> "error", confidence |-> 0, page_count |-> 0,
     source_file |-> "", error |-> outcome.error]
ErrorEntry(path, outcome) ==
    [text |-> "", method_used |-> "error", confidence |-> 0, page_count |-> 0,
     source_file |-> path.name, error |-> outcome.error]
ResultEntry(path, outcome) ==
    IF outcome.raised THEN ErrorEntry(path, outcome)
    ELSE Put(outcome.data, "source_file", path.name)
Collect ==
    /\ futures.phase = "running"
    /\ \E i \in 1..Len(futures.tasks) :
          /\ futures.tasks[i].state = "finished"
          /\ ~futures.tasks[i].yielded
          /\ pool_results' = Append(pool_results,
                ResultEntry(futures.tasks[i].path, futures.tasks[i].outcome))
          /\ futures' = [futures EXCEPT !.tasks[i].yielded = TRUE]
    /\ UNCHANGED <<scorerVars, embedVars, storeVars, normVars, glast, db_faults, threads>>

\* Line 43: as_completed is exhausted, the executor is shut down and the
\* results are returned.
Return ==
    /\ futures.phase = "running"
    /\ \A i \in 1..Len(futures.tasks) : futures.tasks[i].yielded
    /\ futures' = [futures EXCEPT !.phase = "returned"]
    /\ UNCHANGED <<scorerVars, embedVars, storeVars, normVars, glast, db_faults,
                   pool_results, threads>>

NextPool == Submit \/ StartTask \/ FinishTask \/ Collect \/ Return
SpecPool == Init /\ [][NextPool]_vars

\* C24: when process_pdfs_parallel returns, its results correspond one to one
\* to the input files, whatever the order in which the tasks ran and ended:
\* the entry of a file whose extraction returned is the extracted dictionary
\* tagged with the file's name, and the entry of a file whose extraction
\* raised has method_used "error", an empty text, the error message and the
\* file's name.
C24_OneResultPerFile ==
    futures.phase = "returned" =>
      LET n == Len(futures.file_paths) IN
      /\ Len(pool_results) = n
      /\ \E f \in [1..n -> 1..n] :
            /\ \A i, j \in 1..n : f[i] = f[j] => i = j
            /\ \A i \in 1..n :
                  LET r == pool_results[f[i]]
                      t == futures.tasks[i]
                  IN /\ r.source_file = futures.file_paths[i].name
                     /\ IF t.outcome.raised
                        THEN /\ r.method_used = "error" /\ r.text = ""
                             /\ "error" \in DOMAIN r
                             /\ r.error = t.outcome.error
                        ELSE r = Put(t.outcome.data, "source_file",
                                     futures.file_paths[i].name)

\* C24 witness: a call for three files with two workers has returned; the
\* extraction of the first file raised, the other two returned, and the
\* results came in the order third, first, second.
C24_Witness ==
    /\ futures.phase = "returned"
    /\ Len(futures.file_paths) = 3 /\ futures.max_workers = 2
    /\ futures.file_paths[1].name # futures.file_paths[2].name
    /\ futures.tasks[1].outcome.raised
    /\ ~futures.tasks[2].outcome.raised /\ ~futures.tasks[3].outcome.raised
    /\ pool_results[2].method_used = "error"
    /\ pool_results[1].source_file = futures.file_paths[3].name
    /\ pool_results[1].text = ContentOf(futures.file_paths[3])
    /\ pool_results[3].source_file = futures.file_paths[2].name

(***************************************************************************)
(* One scorer invocation seen with the requests of the primary client:      *)
(* every mix of what model.generate_content can do in the three attempts of *)
(* generate_structured_response.                                            *)
(***************************************************************************)
RetryResponses == {Err429, ErrOther, Answer(""), Answer(TxtGarbage),
                   Answer(TxtVerdict85), Answer(TxtList)}
RetryBehaviours ==
    {[raises |-> FALSE, api_key |-> TRUE, responses |-> r]
        : r \in [1..max_retries -> RetryResponses]}
    \cup {[raises |-> FALSE, api_key |-> FALSE, responses |-> << >>]}
RetrySecondary == {[api_key |-> TRUE, response |-> ErrOther],
                   [api_key |-> TRUE, response |-> Answer(TxtVerdict40)]}

\* match_project_to_cv(cv_data, project); glast keeps what the primary client
\* was asked and did (it is not asked on a cache hit).
Request ==
    \E cv_data \in CvData :
    LET hit == CacheHit(match_cache, sha256(cv_data), project_key(P1)) IN
    \E prim \in IF hit THEN {Unused} ELSE RetryBehaviours :
    \E sec \in IF ~hit /\ FallbackNeeded(PrimaryStep(prim).value)
                THEN RetrySecondary ELSE {Unused} :
    \E out \in {match_project_to_cv(match_cache, cv_data, P1, prim, sec)} :
    /\ match_cache' = out.rows
    /\ RowCount(out.rows) <= MaxRows
    /\ last' = [op |-> "score", cv_hash |-> sha256(cv_data),
                project_id |-> project_key(P1), project |-> P1,
                ret |-> out.ret, raised |-> out.raised, calls |-> out.calls,
                primary |-> out.primary, primary_raised |-> out.primary_raised,
                secondary |-> out.secondary, used_fallback |-> out.used_fallback]
    /\ glast' = IF hit THEN glast
                ELSE LET g == generate_structured_response(prim.api_key,
                                                           prim.responses)
                     IN [op |-> "generate", api_key |-> prim.api_key,
                         responses |-> prim.responses, value |-> g.value,
                         calls |-> g.calls, sleeps |-> g.sleeps]
    /\ UNCHANGED <<embedVars, storeVars, normVars, poolVars, db_faults, threads>>

NextRetry == Request
SpecRetry == Init /\ [][NextRetry]_vars

\* A scorer invocation that asked the primary client, and what the client
\* did at attempt k (counted from 1) of that request.
Asked == last.op = "score" /\ last.calls # << >> /\ glast.op = "generate"
Attempted(k) == glast.api_key /\ k <= glast.calls
Transient(k) == glast.responses[k].kind \in {"error429", "error"}
Malformed(k) ==
    /\ glast.responses[k].kind = "text" /\ glast.responses[k].text # ""
    /\ ~json_loads(glast.responses[k].text).ok
\* The delay slept after attempt k, a transient failure: time.sleep is called
\* once per transient failure, in order.
DelayAfter(k) == glast.sleeps[Cardinality({j \in 1..k : Transient(j)})]
IsSentinel(r) == "error" \in DOMAIN r /\ r.overall_score = 0

\* C25: a scoring request makes at most three attempts on the primary whatever
\* the mix of errors, empty and malformed responses, and reports failure after
\* three failed attempts; with at most one attempt on the secondary the scorer
\* invocation ends with a result or with the sentinel.
C25_BoundedAttempts ==
    Asked =>
      /\ glast.calls <= max_retries
      /\ (glast.calls = max_retries
            /\ \A k \in 1..max_retries :
                  Transient(k) \/ Malformed(k) \/ glast.responses[k].text = "")
          => IsNone(glast.value)
      /\ Len(last.calls) <= 2
      /\ ~last.raised
      /\ IsSentinel(last.ret) \/ "overall_score" \in DOMAIN last.ret

\* C26: on consecutive transient failures of either kind the delay before a
\* retry is strictly larger than the delay before the previous retry.
C26_IncreasingBackoff ==
    Asked =>
      \A k \in 1..(max_retries - 1) :
         (Attempted(k + 1) /\ Transient(k) /\ Transient(k + 1)) =>
            DelayAfter(k) < DelayAfter(k + 1)

\* C27: a malformed response of the primary is counted against the same
\* budget as the transient errors: the primary is asked again after it unless
\* it was the last attempt of the budget, the attempts of all kinds never
\* exceed the bound, and when the budget is used up without a result the
\* secondary is asked.
C27_MalformedCounted ==
    Asked =>
      /\ glast.calls <= max_retries
      /\ \A k \in 1..max_retries :
            (Attempted(k) /\ Malformed(k) /\ k < max_retries) =>
               Attempted(k + 1)
      /\ (glast.calls = max_retries /\ ~Truthy(glast.value)) =>
            last.calls = <<"gemini", "perplexity">>

\* C27 witness: a request whose three attempts were a malformed response, an
\* error and a malformed response; the secondary was asked and answered.
C27_Witness ==
    /\ Asked
    /\ glast.calls = max_retries
    /\ Malformed(1) /\ Transient(2) /\ Malformed(3)
    /\ last.calls = <<"gemini", "perplexity">>
    /\ last.used_fallback

\* C28: after a malformed response the primary is not asked again for that
\* request and the scorer goes on to the secondary.
C28_MalformedNotRetried ==
    Asked =>
      \A k \in 1..max_retries :
         (Attempted(k) /\ Malformed(k)) =>
            /\ glast.calls = k
            /\ last.calls = <<"gemini", "perplexity">>

(***************************************************************************)
(* The scorer and the orchestrator over a match cache whose database        *)
(* operations may raise.                                                    *)
(***************************************************************************)
DbOperations == {"read", "write"}

\* The database starts or stops raising on reads, on writes, or on both.
DbFault ==
    /\ \E faults \in SUBSET DbOperations :
          /\ faults # db_faults
          /\ db_faults' = faults
    /\ UNCHANGED <<scorerVars, embedVars, storeVars, normVars, poolVars, glast, threads>>

NextDbFault == DbFault \/ Batch
SpecDbFault == Init /\ [][NextDbFault]_vars

\* What the backends produced in a scorer invocation.
Produced(r) == IF Truthy(r.primary) THEN r.primary ELSE r.secondary
\* A step that is an orchestrator run.
BatchStepTaken == last' # last /\ last'.op = "batch"

\* C30: a failing match-cache store is isolated. In an orchestrator run made
\* while reads or writes of the cache fail, a scorer invocation whose backends
\* produced a verdict returns it with was_cached FALSE and raises nothing;
\* while reads fail every invocation is a miss (a backend is asked); the run
\* has a scorer result for every candidate, up to one that raised for a reason
\* of its own; and while writes fail the cache is left as it was.
C30_StoreFailureIsolated ==
    [][(BatchStepTaken /\ db_faults # {}) =>
         /\ "write" \in db_faults => match_cache' = match_cache
         /\ \A i \in 1..Len(last'.results) :
               LET r == last'.results[i] IN
               /\ "read" \in db_faults => r.calls # << >>
               /\ (r.calls # << >> /\ Truthy(Produced(r)) /\ IsDict(Produced(r))) =>
                     /\ ~IsNone(r.ret)
                     /\ r.ret.was_cached = FALSE
                     /\ r.ret.overall_score = Produced(r).overall_score
                     /\ "error" \notin DOMAIN r.ret
         /\ \/ Len(last'.results) = Len(last'.candidates)
            \/ /\ last'.raised
               /\ IsNone(last'.results[Len(last'.results)].ret)]_vars

\* C30 witness: with writes failing, an orchestrator run over two candidates
\* has a fresh verdict for each of them and the cache holds no row.
C30_Witness ==
    /\ "write" \in db_faults
    /\ last.op = "batch" /\ ~last.raised
    /\ Len(last.candidates) = 2 /\ Len(last.results) = 2
    /\ \A i \in 1..2 : /\ last.results[i].calls # << >>
                       /\ last.results[i].ret.was_cached = FALSE
                       /\ "error" \notin DOMAIN last.results[i].ret
    /\ match_cache = << >>


\* The fresh scorer results of the last orchestrator run: returned by an
\* invocation that asked a backend.
FreshResults ==
    {i \in 1..Len(last.results) :
        ~IsNone(last.results[i].ret) /\ last.results[i].calls # << >>}
FreshUpTo(i) == Cardinality({j \in FreshResults : j <= i})

\* C29: the loop pauses exactly after a fresh scorer result that brings the
\* count of fresh results to a multiple of 10, and never after a cache hit: a
\* run with n fresh results pauses n \div 10 times, a run of cache hits only
\* never pauses.
C29_PauseEveryTenFresh ==
    last.op = "batch" =>
      /\ \A i \in 1..Len(last.results) :
            (\E k \in 1..Len(last.sleeps) : last.sleeps[k] = i)
               <=> (i \in FreshResults /\ FreshUpTo(i) % 10 = 0)
      /\ \A k \in 1..Len(last.sleeps) : \A l \in 1..(k - 1) :
            last.sleeps[l] < last.sleeps[k]
      /\ Len(last.sleeps) = Cardinality(FreshResults) \div 10
      /\ FreshResults = {} => last.sleeps = << >>

\* C29 witness: a run over twenty candidates, three of them served from the
\* cache before the tenth fresh result and some results sentinels, paused
\* once, after the thirteenth candidate.
C29_Witness ==
    /\ last.op = "batch"
    /\ Len(last.results) = 20 /\ Cardinality(FreshResults) < 20
    /\ \E i \in 1..20 : ~IsNone(last.results[i].ret)
                          /\ "error" \in DOMAIN last.results[i].ret
    /\ last.sleeps = <<13>>

(***************************************************************************)
(* Orchestrator runs without credentials (SpecConfig).                     *)
(***************************************************************************)
\* Neither GEMINI_API_KEY nor PERPLEXITY_API_KEY is set.
NoCredentials == [prim |-> [raises |-> FALSE, api_key |-> FALSE, responses |-> << >>],
                  sec |-> [api_key |-> FALSE, response |-> ErrOther]]
ConfigScripts ==
    {<<NoCredentials>>, <<Fallback40>>, <<Ok85, AnswersList>>}

BatchConfig == BatchOver(BatchCalls, ConfigScripts)
NextConfig == BatchConfig
SpecConfig == Init /\ [][NextConfig]_vars

\* C31: only a configuration-level failure aborts a batch, and it does so
\* before the batch starts: a run without credentials stops before any
\* project is scored, and a run with credentials never aborts, every failure
\* of one project being isolated to that project.
C31_OnlyConfigurationAborts ==
    last.op = "batch" =>
       /\ last.configured => ~last.raised
       /\ ~last.configured => (last.raised /\ last.results = << >>)

\* C32: every orchestrator run that returns attaches the metrics record to
\* its output, also when no result meets the minimum threshold and the
\* returned list is empty.
C32_MetricsAlwaysAttached ==
    BatchReturned => (last.ret # << >> /\ "_metrics" \in DOMAIN last.ret[1])

\* What the code keeps: a run that returns a non-empty list carries the
\* metrics record on its first entry, and on no other.
C32_MetricsOnFirstEntry ==
    (BatchReturned /\ last.ret # << >>) =>
       /\ "_metrics" \in DOMAIN last.ret[1]
       /\ \A j \in 2..Len(last.ret) : "_metrics" \notin DOMAIN last.ret[j]

(***************************************************************************)
(* The analysis run of app.process_matching, lines 204-213: the raw        *)
(* projects are normalized and the normalized list is handed to the        *)
(* orchestrator (SpecPipeline, with USE_HYBRID_MATCHING off).              *)
(***************************************************************************)
PipelineRaws == ListsUpTo({RawData, RawBackend, RawBacking}, 2) \ {<< >>}
PipelineScripts == {<<Ok85>>, <<Fallback40>>, <<BothFail, Ok85>>}
NoEnv == [cv_enc |-> EncodeRaises, proj_encs |-> << >>, fail_batch |-> 0,
          sim_raises |-> FALSE]

process_matching ==
    \E raw_projects \in PipelineRaws, script \in PipelineScripts, cv_data \in {"cvA"} :
       /\ uuid_count + Len(raw_projects) <= MaxUuids
       /\ \E norm \in {normalize_projects(raw_projects, uuid_count)} :
          \E out \in {batch_match_projects(match_cache, cv_embeddings, project_embeddings,
                                           cv_data, norm.ret, 0, FALSE, NoEnv, script)} :
             /\ nlast' = [op |-> "normalize", projects |-> raw_projects, ret |-> norm.ret]
             /\ uuid_count' = norm.uuids
             /\ match_cache' = out.rows
             /\ cv_embeddings' = out.cvtab
             /\ project_embeddings' = out.ptab
             /\ last' = [op |-> "batch", cv_hash |-> sha256(cv_data), projects |-> norm.ret,
                         min_score |-> 0, hybrid |-> FALSE,
                         candidates |-> out.candidates, results |-> out.results,
                         ret |-> out.ret, raised |-> out.raised,
                         prefilter_failed |-> out.prefilter_failed, sleeps |-> out.sleeps,
                         configured |-> Configured(script)]
       /\ UNCHANGED <<elast, storeVars, poolVars, glast, db_faults, threads>>

NextPipeline == process_matching
SpecPipeline == Init /\ [][NextPipeline]_vars

\* The project identifiers under which the match cache holds a row.
StoredIds == {k[2] : k \in DOMAIN match_cache}

\* C33: every run of the normalizer gives every project an identifier that
\* no earlier run has given, so a normalize-then-batch run never finds a pair
\* in the match cache: every scorer result of the run is fresh and the
\* metrics count no cache hit, also when the same raw projects were scored
\* and stored for the same candidate by an earlier run.
C33_ColdCacheEveryRun ==
    [][(nlast' # nlast) =>
          /\ \A n \in 1..Len(nlast'.ret) :
                /\ nlast'.ret[n]["id"] \notin StoredIds
                /\ nlast.op = "normalize" =>
                      \A m \in 1..Len(nlast.ret) : nlast'.ret[n]["id"] # nlast.ret[m]["id"]
          /\ last'.op = "batch" /\ ~last'.raised
          /\ \A i \in 1..Len(last'.results) : last'.results[i].calls # << >>
          /\ last'.ret # << >> => last'.ret[1]._metrics.cache_hits = 0]_vars

\* C33 witness: the raw record "Data" was normalized and scored twice for
\* the same candidate; the cache holds the verdict of the first run under
\* one identifier and that of the second run under another, and the second
\* run counted one fresh call and no cache hit.
C33_Witness ==
    /\ nlast.op = "normalize" /\ nlast.projects = <<RawData>> /\ uuid_count >= 2
    /\ last.op = "batch" /\ Len(last.ret) = 1
    /\ "error" \notin DOMAIN last.ret[1]
    /\ last.ret[1]._metrics.cache_hits = 0 /\ last.ret[1]._metrics.api_calls = 1
    /\ \E k \in DOMAIN match_cache :
          /\ k[2] # last.ret[1].project_id
          /\ match_cache[k][1].result_json.project_title = last.ret[1].project_title
    /\ <<last.cv_hash, last.ret[1].project_id>> \in DOMAIN match_cache

(***************************************************************************)
(* The project embedding cache is trusted by identifier (SpecEmbedIndex).  *)
(***************************************************************************)
\* The value a dict built by DictSet holds for key k.
DictValue(d, k) == d[CHOOSE i \in 1..Len(d) : d[i][1] = k][2]
\* The projects of a list that have an identifier.
WithId(projects) == {i \in 1..Len(projects) : Get(projects[i], "id", "") # ""}

CameWithoutLink(p) == strip(LinkOf(p)) = << >>
\* The first URL in the trimmed description, << >> when there is none.
DescriptionUrl(p) == UrlSearch(strip(p["description"]))
PortalGiven(p) == HasNote(p) /\ Get(p, "application_method", << >>) = MethodLink

\* C35: link fallback. An accepted record that came without an application
\* link and whose description contains a URL has the first matched URL as
\* its link and the method link; a record that came with a link keeps it
\* (trimmed); a record with neither has an empty link, unless a portal link
\* was propagated to it.
C35_LinkFallback ==
    nlast.op = "normalize" =>
      \A n \in 1..Len(nlast.ret) :
         LET o == Origin(n)
             r == nlast.ret[n]
         IN IF ~CameWithoutLink(o) THEN LinkOf(r) = strip(LinkOf(o))
            ELSE IF DescriptionUrl(o) # << >>
            THEN /\ LinkOf(r) = DescriptionUrl(o)
                 /\ Get(r, "application_method", << >>) = MethodLink
            ELSE LinkOf(r) = << >> \/ PortalGiven(r)

\* What the code keeps: the description is scanned only when the link is
\* missing or the empty string before any trimming; a link of whitespace
\* counts as provided, is trimmed to the empty string and leaves the record
\* without link unless a portal link is propagated.
C35_LinkFallbackUntrimmed ==
    nlast.op = "normalize" =>
      \A n \in 1..Len(nlast.ret) :
         LET o == Origin(n)
             r == nlast.ret[n]
         IN IF ~CameWithoutLink(o) THEN LinkOf(r) = strip(LinkOf(o))
            ELSE IF LinkOf(o) = << >> /\ DescriptionUrl(o) # << >>
            THEN /\ LinkOf(r) = DescriptionUrl(o)
                 /\ Get(r, "application_method", << >>) = MethodLink
            ELSE LinkOf(r) = << >> \/ PortalGiven(r)

(***************************************************************************)
(* The sentinel and the match cache (Spec).                                *)
(***************************************************************************)
\* A step that is a scorer invocation, and the pair it was made for.
ScoreStepTaken == last' # last /\ last'.op = "score"
ScoredPair == <<last'.cv_hash, last'.project_id>>

\* C36: an error sentinel is never written to the match cache. A scorer
\* invocation that returns the sentinel leaves the table as it was, with no
\* row for the pair, so a lookup of the pair misses; no row of the table ever
\* holds an error result; and every scorer invocation for a pair without a
\* row asks the backends.
C36_SentinelNeverCached ==
    [][/\ (ScoreStepTaken /\ IsSentinel(last'.ret)) =>
             /\ match_cache' = match_cache
             /\ ScoredPair \notin DOMAIN match_cache'
             /\ IsNone(get_cached_match(match_cache', last'.cv_hash, last'.project_id))
       /\ (ScoreStepTaken /\ ScoredPair \notin DOMAIN match_cache) =>
             last'.calls # << >>
       /\ \A k \in DOMAIN match_cache' : \A i \in 1..Len(match_cache'[k]) :
             "error" \notin DOMAIN match_cache'[k][i].result_json]_vars

\* C36 witness: with a verdict stored for another pair, a scorer invocation
\* asked both backends, both failed, the sentinel was returned and the pair
\* has no row.
C36_Witness ==
    /\ last.op = "score" /\ ~last.raised /\ IsSentinel(last.ret)
    /\ last.calls = <<"gemini", "perplexity">>
    /\ <<last.cv_hash, last.project_id>> \notin DOMAIN match_cache
    /\ match_cache # << >>

(***************************************************************************)
(* Scorer invocations for projects without identifier (SpecNoId).          *)
(***************************************************************************)
\* A second project that carries no id.
Q2 == [title |-> "Web Project", company |-> "Shop"]
ScoreNoId == Score({Q, Q2})
NextNoId == ScoreNoId
SpecNoId == Init /\ [][NextNoId]_vars

BelongsTo(r, project) ==
    /\ Get(r, "project_id", "") = Get(project, "id", None)
    /\ Get(r, "project_title", "") = Get(project, "title", None)
    /\ Get(r, "company", "") = Get(project, "company", None)

\* C39: the result the scorer returns for a project belongs to that project:
\* whatever the cache holds, and also for a project that carries no
\* identifier, the result has the project's id, title and company.
C39_ResultBelongsToProject ==
    (last.op = "score" /\ ~last.raised) => BelongsTo(last.ret, last.project)

(***************************************************************************)
(* Scorer invocations in concurrent threads (SpecConcurrent).  Each thread *)
(* has its own session (scoped_session); the table is read at the lookup   *)
(* of lines 31-36 and written at line 93, and SQLite runs each of the two  *)
(* as one transaction.  The calls of the backends between them touch       *)
(* nothing shared.                                                         *)
(***************************************************************************)
ConcurrentProjects == {P1, Q}
ConcurrentBehaviours == {Ok85, Fallback40, BothFail}

\* Lines 29-87: the lookup and, on a miss, the backends and the metadata.  A
\* hit, the sentinel and a raise end the invocation; a verdict is still to
\* be stored.
BeginScore(t) ==
    /\ threads[t].pc \in {"idle", "returned"}
    /\ \E cv_data \in {"cvA"}, project \in ConcurrentProjects, b \in ConcurrentBehaviours :
       \E out \in {match_project_to_cv(match_cache, cv_data, project, b.prim, b.sec)} :
          threads' = [threads EXCEPT ![t] =
             IF out.calls # << >> /\ ~out.raised /\ Truthy(Produced(out))
             THEN [pc |-> "to_store", cv_hash |-> sha256(cv_data),
                   project_id |-> project_key(project), ret |-> out.ret, raised |-> FALSE]
             ELSE [pc |-> "returned", cv_hash |-> sha256(cv_data),
                   project_id |-> project_key(project), ret |-> out.ret,
                   raised |-> out.raised]]
    /\ UNCHANGED <<scorerVars, embedVars, storeVars, normVars, poolVars, glast, db_faults>>

\* Lines 93-95: save_cached_match on the table as it is now, then return.
StoreScore(t) ==
    /\ threads[t].pc = "to_store"
    /\ match_cache' = save_cached_match(match_cache, threads[t].cv_hash,
                                        threads[t].project_id, threads[t].ret)
    /\ threads' = [threads EXCEPT ![t].pc = "returned"]
    /\ UNCHANGED <<last, embedVars, storeVars, normVars, poolVars, glast, db_faults>>

NextConcurrent == \E t \in Threads : BeginScore(t) \/ StoreScore(t)
SpecConcurrent == Init /\ [][NextConcurrent]_vars

\* The invocation of thread t has returned a verdict of the backends that
\* it obtained after a miss.
ReturnedVerdict(t) ==
    /\ threads[t].pc = "returned" /\ ~threads[t].raised
    /\ threads[t].ret.was_cached = FALSE
    /\ "error" \notin DOMAIN threads[t].ret
PairOf(t) == <<threads[t].cv_hash, threads[t].project_id>>

\* C37: two scorer invocations that run concurrently for one (candidate
\* hash, project id) pair, both starting on a miss and both obtaining a
\* verdict, tolerate each other: whatever the interleaving, no invocation
\* raises, both return their own verdict with was_cached False, and the
\* table then holds exactly one row for the pair, whose result is the
\* verdict of one of the two.
C37_ConcurrentScorersTolerated ==
    /\ \A t \in Threads : threads[t].pc # "idle" => ~threads[t].raised
    /\ \A t \in Threads : ReturnedVerdict(t) =>
          /\ PairOf(t) \in DOMAIN match_cache
          /\ Len(match_cache[PairOf(t)]) = 1
    /\ \A t, u \in Threads :
          (t # u /\ ReturnedVerdict(t) /\ ReturnedVerdict(u) /\ PairOf(t) = PairOf(u)) =>
             match_cache[PairOf(t)][1].result_json \in {threads[t].ret, threads[u].ret}

\* C37 witness: both threads missed on the same pair, one obtained 85 from
\* the primary and the other 40 from the fallback, both have returned, and
\* the table holds one row for the pair, with the verdict of thread 2.
C37_Witness ==
    /\ ReturnedVerdict(1) /\ ReturnedVerdict(2) /\ PairOf(1) = PairOf(2)
    /\ threads[1].ret.overall_score # threads[2].ret.overall_score
    /\ Len(match_cache[PairOf(1)]) = 1
    /\ match_cache[PairOf(1)][1].result_json = threads[2].ret

(***************************************************************************)
(* The content store under concurrent threads (SpecSweep).  save_file      *)
(* reads the table (line 46), writes the file (lines 60-62) and commits    *)
(* the row (lines 77-78); cleanup_orphans reads the table (lines 132-134)  *)
(* and then walks the directory, unlinking one file at a time (lines       *)
(* 139-148).  Each of these is a step of its thread.                       *)
(***************************************************************************)
\* What the threads upload: the same bytes under two names of one extension
\* and under a name of another extension.
SweepUploads == {u \in Uploads : u.bytes = "Hello World PDF Content"}
\* Largest number of files one sweep unlinks.
MaxUnlinks == 2

\* Lines 43-49: the hash and the check for a row of this hash.
BeginSave(t) ==
    /\ threads[t].pc \in {"idle", "returned"}
    /\ \E u \in SweepUploads :
       LET existing_doc == ExistingDoc(documents, calculate_hash(u.bytes)) IN
       threads' = [threads EXCEPT ![t] =
          IF existing_doc # {}
          THEN [pc |-> "returned", call |-> "save", upload |-> u,
                ret |-> (CHOOSE d \in existing_doc : TRUE).id]
          ELSE [pc |-> "to_write", call |-> "save", upload |-> u, ret |-> NoId]]
    /\ UNCHANGED <<scorerVars, embedVars, storeVars, normVars, poolVars, glast, db_faults>>

\* Lines 52-62: the file is written; a write that raises ends the call with
\* None (lines 83-86).
WriteBytes(t) ==
    /\ threads[t].pc = "to_write"
    /\ \E outcome \in WriteOutcomes :
       LET u == threads[t].upload IN
       /\ storage' = WriteFile(storage, StoragePath(calculate_hash(u.bytes), u.name),
                               u.bytes, outcome)
       /\ threads' = [threads EXCEPT ![t].pc =
                         IF CommitAfterWrite(outcome) THEN "to_commit" ELSE "returned"]
    /\ UNCHANGED <<documents, flast, scorerVars, embedVars, normVars, poolVars, glast,
                   db_faults>>

\* Lines 68-81: the row is added and committed. file_hash is unique
\* (models.py line 60): the commit of a hash that has a row by now raises,
\* and the call rolls back and returns None.
CommitDoc(t) ==
    /\ threads[t].pc = "to_commit"
    /\ LET u == threads[t].upload
           file_hash == calculate_hash(u.bytes)
           new_doc == [id |-> NewDocumentId(documents), file_hash |-> file_hash,
                       original_filename |-> u.name,
                       file_path |-> StoragePath(file_hash, u.name),
                       mime_type |-> guess_type(u.name),
                       document_type |-> u.type]
       IN IF DocByHash(documents, file_hash) = {}
          THEN /\ new_doc.id <= MaxDocumentId
               /\ documents' = documents \cup {new_doc}
               /\ threads' = [threads EXCEPT ![t].pc = "returned", ![t].ret = new_doc.id]
          ELSE /\ documents' = documents
               /\ threads' = [threads EXCEPT ![t].pc = "returned"]
    /\ UNCHANGED <<storage, flast, scorerVars, embedVars, normVars, poolVars, glast,
                   db_faults>>

\* Lines 129-136: the paths the rows hold; `listed` is what the directory
\* holds when the walk starts.
BeginSweep(t) ==
    /\ threads[t].pc \in {"idle", "returned"}
    /\ threads' = [threads EXCEPT ![t] =
          [pc |-> "walking", call |-> "sweep", known_paths |-> KnownPaths(documents),
           listed |-> DOMAIN storage, ret |-> 0]]
    /\ UNCHANGED <<scorerVars, embedVars, storeVars, normVars, poolVars, glast, db_faults>>

\* Lines 139-146: a file the walk meets whose path is not among the known
\* paths is unlinked (a file created during the walk may be met or not).
Unlink(t) ==
    /\ threads[t].pc = "walking"
    /\ threads[t].ret < MaxUnlinks
    /\ \E path \in DOMAIN storage \ threads[t].known_paths :
          /\ storage' = [q \in DOMAIN storage \ {path} |-> storage[q]]
          /\ threads' = [threads EXCEPT ![t].ret = @ + 1]
    /\ UNCHANGED <<documents, flast, scorerVars, embedVars, normVars, poolVars, glast,
                   db_faults>>

\* Line 149: the walk is over when every listed file was met.
EndSweep(t) ==
    /\ threads[t].pc = "walking"
    /\ (threads[t].listed \ threads[t].known_paths) \cap DOMAIN storage = {}
    /\ threads' = [threads EXCEPT ![t].pc = "returned"]
    /\ UNCHANGED <<scorerVars, embedVars, storeVars, normVars, poolVars, glast, db_faults>>

SaveSteps(t) == BeginSave(t) \/ WriteBytes(t) \/ CommitDoc(t)
SweepSteps(t) == BeginSweep(t) \/ Unlink(t) \/ EndSweep(t)
NextSweep == \E t \in Threads : SaveSteps(t) \/ SweepSteps(t)
SpecSweep == Init /\ [][NextSweep]_vars
\* Saves alone, in both threads.
NextSaves == \E t \in Threads : SaveSteps(t)
SpecSaves == Init /\ [][NextSaves]_vars

\* C38: under any interleaving of save_file calls with a cleanup_orphans
\* call running in another thread, and of two save_file calls of the same
\* bytes, every committed row of uploaded_documents refers to a file that is
\* on disk: the sweep never removes the bytes of a save that goes on to
\* commit its row.
C38_CommittedFileExists ==
    \A d \in documents : d.file_path \in DOMAIN storage

====
